---- MODULE Spec2Model ----
(***************************************************************************)
(* A model of the porcelain layer of the bot SDK (src/sdk/actions.ts,      *)
(* class BotActions).  Every public operation is an async function: the   *)
(* code between two awaits runs atomically, and the world snapshot that   *)
(* sdk.getState() returns may change at every await.  An action of this   *)
(* module is one such synchronous segment; Env* actions are the external  *)
(* snapshot source replacing the snapshot while the operation is          *)
(* suspended.                                                              *)
(***************************************************************************)
EXTENDS Integers, Sequences, FiniteSets, TLC

VARIABLES
    world,   \* the snapshot sdk.getState() returns now
    pc,      \* the await at which the running operation is suspended
    loc,     \* locals of the public operation that was called
    wf,      \* locals of the running walkTo call
    mf,      \* locals of the running waitForMovementComplete call
    polled,  \* TRUE when the running code has had `world` before it: a wait has
             \* evaluated its predicate on it, or the segment that ran last read it
    cmds,    \* the primitive commands sent so far, oldest first, and between
             \* them a "settled" entry for every completed waitForMovementComplete;
             \* the commands of walkTo's earlier attempts are one "earlier" entry
    result,  \* what the public operation returned (NoResult while it runs)
    budget,  \* how many more times the external source replaces the snapshot
    seen     \* the player position the running code read last (history)

vars == <<world, pc, loc, wf, mf, polled, cmds, result, budget, seen>>

----------------------------------------------------------------------------
(* Bounds of the model.                                                    *)

MaxEnvSteps == 2
MaxMoveSteps == 3

----------------------------------------------------------------------------
(* Values.                                                                 *)

NoPlayer == [present |-> FALSE, x |-> 0, z |-> 0]
NoResult == [kind |-> "none"]
NoFrame == [ret |-> "none"]

Pos(px, pz) == [present |-> TRUE, x |-> px, z |-> pz]

\* Math.pow(x - px, 2) + Math.pow(z - pz, 2): the square of the straight-line
\* distance the code takes the square root of.
Dist2(px, pz, x, z) == (x - px) * (x - px) + (z - pz) * (z - pz)

\* (mutant) three tiles more than the tolerance still count.
WithinTolAndThree(d2, tolerance) == d2 <= (tolerance + 3) * (tolerance + 3)

\* Math.sqrt(d2) <= tolerance, for a tolerance >= 0.
WithinTol(d2, tolerance) == d2 <= tolerance * tolerance

Min(a, b) == IF a < b THEN a ELSE b

Last(s) == s[Len(s)]

----------------------------------------------------------------------------
(* waitForMovementComplete (private helper).                               *)
(* mf.elapsed is Date.now() - startTime and mf.idle is                    *)
(* Date.now() - lastMoveTime; both clocks are only ever read as these     *)
(* differences.  The setTimeout of a poll fires after POLL_INTERVAL, so   *)
(* every time is a multiple of 10 ms.                                      *)

POLL_INTERVAL == 150
STUCK_THRESHOLD == 600
MIN_TIMEOUT == 2000

\* Date.now() - startTime < maxTimeout, with
\* maxTimeout = Math.max(MIN_TIMEOUT, (distance / 4.5) * 1000 * 1.5)
\*            = Math.max(MIN_TIMEOUT, sqrt(startD2) * 1000 / 3).
\* (3 * elapsed < 1000 * sqrt(startD2), squared, in units of 10 ms.)
BeforeMaxTimeout(elapsed, startD2) ==
    \/ elapsed < MIN_TIMEOUT
    \/ 9 * (elapsed \div 10) * (elapsed \div 10) < 10000 * startD2

\* (mutant) stuck as soon as the threshold is reached.
StuckNowAtThreshold(idle) == idle >= STUCK_THRESHOLD

\* Date.now() - lastMoveTime > STUCK_THRESHOLD
StuckNow(idle) == idle > STUCK_THRESHOLD

\* What the helper returns.
MoveResult(arrived, stoppedMoving, x, z) ==
    [arrived |-> arrived, stoppedMoving |-> stoppedMoving, x |-> x, z |-> z]

\* Lines 51-68: the frame after the start snapshot was read (player present).
WmcFrame(w, targetX, targetZ, tolerance, ret) ==
    [ret |-> ret, targetX |-> targetX, targetZ |-> targetZ, tolerance |-> tolerance,
     startD2 |-> Dist2(w.player.x, w.player.z, targetX, targetZ),
     lastX |-> w.player.x, lastZ |-> w.player.z,
     elapsed |-> 0, idle |-> 0]

\* Lines 99-111: the result once the loop condition fails.
WmcTimedOut(w, f) ==
    LET finalX == IF w.synced /\ w.player.present THEN w.player.x ELSE f.lastX
        finalZ == IF w.synced /\ w.player.present THEN w.player.z ELSE f.lastZ
    IN  MoveResult(WithinTol(Dist2(finalX, finalZ, f.targetX, f.targetZ), f.tolerance),
                   TRUE, finalX, finalZ)

\* Lines 73-96: one pass of the loop body after its sleep.  The outcome is
\* either a result (done) or the frame the next sleep starts from.
WmcPoll(w, f) ==
    LET elapsed == f.elapsed + POLL_INTERVAL
        idle == f.idle + POLL_INTERVAL
    IN  IF ~(w.synced /\ w.player.present)
        THEN [done |-> TRUE, res |-> MoveResult(FALSE, TRUE, f.lastX, f.lastZ),
              frame |-> [f EXCEPT !.elapsed = elapsed, !.idle = idle]]
        ELSE IF WithinTol(Dist2(w.player.x, w.player.z, f.targetX, f.targetZ), f.tolerance)
        THEN [done |-> TRUE, res |-> MoveResult(TRUE, FALSE, w.player.x, w.player.z),
              frame |-> [f EXCEPT !.elapsed = elapsed, !.idle = idle]]
        ELSE IF w.player.x # f.lastX \/ w.player.z # f.lastZ
        THEN LET g == [f EXCEPT !.elapsed = elapsed, !.idle = 0,
                                !.lastX = w.player.x, !.lastZ = w.player.z]
             IN  IF BeforeMaxTimeout(elapsed, f.startD2)
                 THEN [done |-> FALSE, res |-> MoveResult(FALSE, FALSE, 0, 0), frame |-> g]
                 ELSE [done |-> TRUE, res |-> WmcTimedOut(w, g), frame |-> g]
        ELSE IF StuckNow(idle)
        THEN [done |-> TRUE, res |-> MoveResult(FALSE, TRUE, w.player.x, w.player.z),
              frame |-> [f EXCEPT !.elapsed = elapsed, !.idle = idle]]
        ELSE LET g == [f EXCEPT !.elapsed = elapsed, !.idle = idle]
             IN  IF BeforeMaxTimeout(elapsed, f.startD2)
                 THEN [done |-> FALSE, res |-> MoveResult(FALSE, FALSE, 0, 0), frame |-> g]
                 ELSE [done |-> TRUE, res |-> WmcTimedOut(w, g), frame |-> g]

----------------------------------------------------------------------------
(* Configurations: what a synchronous segment leaves behind.               *)

Cfg(p, l, f, m, c, r) ==
    [pc |-> p, loc |-> l, wf |-> f, mf |-> m, cmds |-> c, result |-> r]

\* waitForCondition is evaluating snapshots at these awaits.
WaitPcs == {"w_direct_wait", "a_wait", "d_wait", "s_wait", "o_wait", "v_wait", "h_wait",
            "c_wait", "p_wait", "b_wait", "y_wait"}

Apply(n) ==
    /\ polled' = (n.pc \notin WaitPcs)
    /\ pc' = n.pc
    /\ loc' = n.loc
    /\ wf' = n.wf
    /\ mf' = n.mf
    /\ cmds' = n.cmds
    /\ result' = n.result

HasPlayer(w) == w.synced /\ w.player.present

Returned(r) == r.kind = "returned"
Threw(r) == r.kind = "threw"

\* An ActionResult { success, message, reason? }; a result that carries no
\* reason has reason "none".
Result(success, message, reason) ==
    [kind |-> "returned", success |-> success, message |-> message, reason |-> reason]

FindPathCmd(x, z) == [c |-> "findPath", x |-> x, z |-> z]
\* src and wp say which statement sent the walk and, for a waypoint, its index
\* in the path (0-based, as in the code).
WalkCmd(x, z, src, wp) == [c |-> "walk", x |-> x, z |-> z, src |-> src, wp |-> wp]
\* A waitForMovementComplete returned, the player being at `w.player`.
Settled(w) == [c |-> "settled", player |-> IF w.synced THEN w.player ELSE NoPlayer]
Earlier == [c |-> "earlier"]

IsCommand(e) == e.c # "settled"

\* The segment read the snapshot / did not read it.
Reads == seen' = IF HasPlayer(world) THEN <<world.player.x, world.player.z>> ELSE seen
NoRead == UNCHANGED seen
Commands(c) == SelectSeq(c, IsCommand)

----------------------------------------------------------------------------
(* walkTo(x, z, tolerance).                                                *)

MAX_PATH_QUERIES == 80
WAYPOINT_STEP == 5
LONG_RANGE == 40
MIN_PROGRESS == 5
STUCK_LIMIT == 3
INTERMEDIATE_DISTANCES == <<60, 40, 25>>
PERPENDICULAR_OFFSETS == <<0, 15, -15, 30, -30>>

\* The integer square root, for the squares of the model's long distances.
ISqrt(n) == CHOOSE r \in 0..n : r * r <= n /\ (r + 1) * (r + 1) > n

\* Math.round(c + num / den) for den > 0: the nearest integer, halves upwards.
RoundDiv(c, num, den) == (2 * (c * den + num) + den) \div (2 * den)

\* (mutant) the comparison is strict.
AlreadyThereStrict(px, pz, x, z, tolerance) ==
    Dist2(px, pz, x, z) < tolerance * tolerance

\* Line 405 and line 422: startDist <= tolerance.
AlreadyThere(px, pz, x, z, tolerance) == WithinTol(Dist2(px, pz, x, z), tolerance)

\* (mutant) progressMade <= 5.
LowProgressOrEqual(beforeD2, afterD2) ==
    LET k == beforeD2 - afterD2 - MIN_PROGRESS * MIN_PROGRESS
    IN  k < 0 \/ k * k <= 4 * MIN_PROGRESS * MIN_PROGRESS * afterD2

\* Line 507: progressMade < 5, where progressMade = sqrt(beforeD2) - sqrt(afterD2).
LowProgress(beforeD2, afterD2) ==
    LET k == beforeD2 - afterD2 - MIN_PROGRESS * MIN_PROGRESS
    IN  k < 0 \/ k * k < 4 * MIN_PROGRESS * MIN_PROGRESS * afterD2

\* Line 428: no waypoints came back.
NoWaypoints(pr) == Len(pr.waypoints) = 0

\* (mutant) no distance is skipped.
CandidatesUnskipped(cx, cz, x, z) ==
    LET d2 == Dist2(cx, cz, x, z)
        d == ISqrt(d2)
        point(dist, offset) ==
            <<RoundDiv(cx, (x - cx) * dist - (z - cz) * offset, d),
              RoundDiv(cz, (z - cz) * dist + (x - cx) * offset, d)>>
        row(dist) ==
            [i \in 1..Len(PERPENDICULAR_OFFSETS) |-> point(dist, PERPENDICULAR_OFFSETS[i])]
    IN  row(INTERMEDIATE_DISTANCES[1]) \o row(INTERMEDIATE_DISTANCES[2])
        \o row(INTERMEDIATE_DISTANCES[3])

\* Lines 429-450: the points the intermediate search queries, in order.
Candidates(cx, cz, x, z) ==
    LET d2 == Dist2(cx, cz, x, z)
        d == ISqrt(d2)
        point(dist, offset) ==
            <<RoundDiv(cx, (x - cx) * dist - (z - cz) * offset, d),
              RoundDiv(cz, (z - cz) * dist + (x - cx) * offset, d)>>
        row(dist) ==
            IF dist * dist >= d2 THEN <<>>
            ELSE [i \in 1..Len(PERPENDICULAR_OFFSETS) |->
                    point(dist, PERPENDICULAR_OFFSETS[i])]
    IN  row(INTERMEDIATE_DISTANCES[1]) \o row(INTERMEDIATE_DISTANCES[2])
        \o row(INTERMEDIATE_DISTANCES[3])

\* walkTo returns `r` to whoever awaited it: to openDoor (line 151), or to
\* the caller of the layer.
WalkReturn(l, f, c, r) ==
    IF f.ret = "openDoor"
    THEN Cfg("r_walked", l, [ret |-> "top", walkResult |-> r], NoFrame, c, NoResult)
    ELSE Cfg("done", l, f, NoFrame, c, r)

\* A walkTo result whose message names a position.
ResultAt(success, message, px, pz) ==
    [kind |-> "returned", success |-> success, message |-> message,
     reason |-> "none", x |-> px, z |-> pz]

Arrived(px, pz) == ResultAt(TRUE, "Arrived", px, pz)

\* Lines 517-527: the loop ran out of iterations.
WalkExhausted(w, l, f, c) ==
    LET finalX == IF HasPlayer(w) THEN w.player.x ELSE f.startX
        finalZ == IF HasPlayer(w) THEN w.player.z ELSE f.startZ
    IN  IF AlreadyThere(finalX, finalZ, f.x, f.z, f.tolerance)
        THEN WalkReturn(l, f, c, Arrived(finalX, finalZ))
        ELSE WalkReturn(l, f, c, ResultAt(FALSE, "Could not reach", finalX, finalZ))

\* (mutant) the loop has no cap.
NeverOutOfQueries(query) == FALSE

\* Line 412: the loop condition query < MAX_PATH_QUERIES fails.
OutOfQueries(query) == query >= MAX_PATH_QUERIES

\* Lines 412-426: the head of one replanning iteration, up to the path query.
\* f.answered (history) tells, for each path query of the iteration that was
\* answered, whether the answer had waypoints.
WalkLoop(w, l, f, c) ==
    IF OutOfQueries(f.query) THEN WalkExhausted(w, l, f, c)
    ELSE IF ~HasPlayer(w)
    THEN WalkReturn(l, f, c, Result(FALSE, "Lost player state", "none"))
    ELSE IF AlreadyThere(w.player.x, w.player.z, f.x, f.z, f.tolerance)
    THEN WalkReturn(l, f, c, Arrived(w.player.x, w.player.z))
    ELSE Cfg("w_path", l,
             [f EXCEPT !.currentX = w.player.x, !.currentZ = w.player.z,
                       !.distD2 = Dist2(w.player.x, w.player.z, f.x, f.z),
                       !.waypoints = <<>>, !.wpIndex = 0, !.cands = <<>>,
                       !.answered = <<>>],
             NoFrame,
             IF f.query = 0 THEN Append(c, FindPathCmd(f.x, f.z))
             ELSE <<Earlier, FindPathCmd(f.x, f.z)>>,
             NoResult)

\* Lines 396-410: the call.
WalkCall(w, l, c, x, z, tolerance, ret) ==
    LET f == [ret |-> ret, x |-> x, z |-> z, tolerance |-> tolerance,
              startX |-> w.player.x, startZ |-> w.player.z,
              query |-> 0, stuckCount |-> 0,
              currentX |-> 0, currentZ |-> 0, distD2 |-> 0,
              waypoints |-> <<>>, wpIndex |-> 0, cands |-> <<>>, hist |-> <<>>,
              answered |-> <<>>]
    IN  IF ~HasPlayer(w)
        THEN WalkReturn(l, f, c, Result(FALSE, "No player state", "none"))
        ELSE IF AlreadyThere(w.player.x, w.player.z, x, z, tolerance)
        THEN WalkReturn(l, f, c, Result(TRUE, "Already at", "none"))
        ELSE WalkLoop(w, l, f, c)

\* The last three entries of a history.
Recent(h) == IF Len(h) > 3 THEN SubSeq(h, Len(h) - 2, Len(h)) ELSE h

\* Lines 497-515: the end of an attempt, and on to the next iteration.
\* f.hist (history) keeps, for the last attempts that ended here without
\* arriving, the squared distance to the goal before and after the attempt.
AttemptEnd(w, l, f0, c) ==
    LET afterX == IF HasPlayer(w) THEN w.player.x ELSE f0.currentX
        afterZ == IF HasPlayer(w) THEN w.player.z ELSE f0.currentZ
        newD2 == Dist2(afterX, afterZ, f0.x, f0.z)
        f == [f0 EXCEPT !.hist = Recent(Append(f0.hist, <<f0.distD2, newD2>>))]
    IN  IF WithinTol(newD2, f.tolerance)
        THEN WalkReturn(l, f0, c, Arrived(afterX, afterZ))
        ELSE IF LowProgress(f.distD2, newD2)
        THEN IF f.stuckCount + 1 >= STUCK_LIMIT
             THEN WalkReturn(l, [f EXCEPT !.stuckCount = f.stuckCount + 1], c,
                             ResultAt(FALSE, "Stuck", afterX, afterZ))
             ELSE WalkLoop(w, l, [f EXCEPT !.stuckCount = f.stuckCount + 1,
                                           !.query = f.query + 1], c)
        ELSE WalkLoop(w, l, [f EXCEPT !.stuckCount = 0, !.query = f.query + 1], c)

\* Lines 491-495: the walk to the last waypoint that ends every attempt.
AfterStrides(l, f, c) ==
    LET lastWp == f.waypoints[Len(f.waypoints)]
    IN  Cfg("w_last_ack", l, f, NoFrame,
            Append(c, WalkCmd(lastWp[1], lastWp[2], "last", Len(f.waypoints) - 1)),
            NoResult)

\* Lines 470-473: the stride loop's condition and its walk command.
StrideNext(l, f, c) ==
    IF f.wpIndex < Len(f.waypoints)
    THEN LET wp == f.waypoints[f.wpIndex + 1]
         IN  Cfg("w_stride_ack", l, f, NoFrame,
                 Append(c, WalkCmd(wp[1], wp[2], "stride", f.wpIndex)), NoResult)
    ELSE AfterStrides(l, f, c)

\* (mutant) the stride loop starts at the first waypoint.
FirstStrideZero(k) == 0

\* Line 470: the first waypoint index of the stride loop.
FirstStride(k) == Min(WAYPOINT_STEP - 1, k - 1)

\* (mutant) the fallback sends its walk command twice.
AfterSearchWalksTwice(l, f, c, pr) ==
    IF ~pr.success \/ NoWaypoints(pr)
    THEN Cfg("w_direct_ack", l, f, NoFrame,
             c \o <<WalkCmd(f.x, f.z, "direct", -1), WalkCmd(f.x, f.z, "direct", -1)>>, NoResult)
    ELSE StrideNext(l, [f EXCEPT !.waypoints = pr.waypoints,
                                 !.wpIndex = Min(WAYPOINT_STEP - 1, Len(pr.waypoints) - 1)], c)

\* Lines 453-470: what follows the path queries.
AfterSearch(l, f, c, pr) ==
    IF ~pr.success \/ NoWaypoints(pr)
    THEN Cfg("w_direct_ack", l, f, NoFrame,
             Append(c, WalkCmd(f.x, f.z, "direct", -1)), NoResult)
    ELSE StrideNext(l, [f EXCEPT !.waypoints = pr.waypoints,
                                 !.wpIndex = FirstStride(Len(pr.waypoints))], c)

\* (mutant) the position of the movement result is trusted without a look at
\* the snapshot.
StrideContTrusting(w, l, f, c, mr) ==
    IF WithinTol(Dist2(mr.x, mr.z, f.x, f.z), f.tolerance)
    THEN WalkReturn(l, f, c, Arrived(mr.x, mr.z))
    ELSE IF ~HasPlayer(w)
    THEN WalkReturn(l, f, c, Result(FALSE, "Lost connection during walk", "none"))
    ELSE IF mr.stoppedMoving /\ ~mr.arrived
    THEN AfterStrides(l, f, c)
    ELSE StrideNext(l, [f EXCEPT !.wpIndex = f.wpIndex + WAYPOINT_STEP], c)

\* Lines 477-488: after a stride's waitForMovementComplete returned `mr`.
StrideCont(w, l, f, c, mr) ==
    IF ~HasPlayer(w)
    THEN WalkReturn(l, f, c, Result(FALSE, "Lost connection during walk", "none"))
    ELSE IF WithinTol(Dist2(mr.x, mr.z, f.x, f.z), f.tolerance)
    THEN WalkReturn(l, f, c, Arrived(mr.x, mr.z))
    ELSE IF mr.stoppedMoving /\ ~mr.arrived
    THEN AfterStrides(l, f, c)
    ELSE StrideNext(l, [f EXCEPT !.wpIndex = f.wpIndex + WAYPOINT_STEP], c)

\* waitForMovementComplete returns `mr` to the statement that awaited it.
WmcReturn(w, l, f, m, c, mr) ==
    IF m.ret = "stride" THEN StrideCont(w, l, f, Append(c, Settled(w)), mr)
    ELSE IF m.ret = "last" THEN AttemptEnd(w, l, f, Append(c, Settled(w)))
    ELSE Cfg("done", l, f, m, Append(c, Settled(w)),
             [kind |-> "returned", move |-> mr])

\* Lines 51-54 and 56-71: the call of waitForMovementComplete, up to its first sleep.
WmcCall(w, l, f, c, targetX, targetZ, tolerance, ret) ==
    IF ~HasPlayer(w)
    THEN WmcReturn(w, l, f, [ret |-> ret], c, MoveResult(FALSE, TRUE, 0, 0))
    ELSE Cfg("m_sleep", l, f, WmcFrame(w, targetX, targetZ, tolerance, ret), c, NoResult)

----------------------------------------------------------------------------
(* The world of the walking specifications.                                *)

\* The goal of the walks.
Goal == <<0, 0>>

\* Where the player can be.  The far position is at an integral distance of
\* the goal, so that the intermediate points are computed exactly.
Positions == { <<0, 0>>, <<3, 4>>, <<6, 8>>, <<30, 40>> }

Tolerances == {3, 5}

Path3 == << <<6, 8>>, <<3, 4>>, <<2, 2>> >>
Path6 == << <<9, 12>>, <<9, 12>>, <<6, 8>>, <<6, 8>>, <<3, 4>>, <<0, 0>> >>
Path11 == << <<9, 12>>, <<9, 12>>, <<9, 12>>, <<9, 12>>, <<6, 8>>, <<6, 8>>,
             <<6, 8>>, <<3, 4>>, <<3, 4>>, <<3, 4>>, <<0, 0>> >>
Paths == {<<>>, Path3, Path6, Path11}

\* What sendFindPath can answer.
PathResults ==
    {[success |-> TRUE, waypoints |-> p] : p \in Paths}
    \cup {[success |-> FALSE, waypoints |-> <<>>], [success |-> FALSE, waypoints |-> Path3]}

WalkWorld(synced, player) == [synced |-> synced, player |-> player]

WalkWorlds ==
    {WalkWorld(TRUE, Pos(p[1], p[2])) : p \in Positions}
    \cup {WalkWorld(TRUE, NoPlayer), WalkWorld(FALSE, NoPlayer)}

\* The awaits after which the code reads the snapshot before it awaits again.
\* A snapshot that arrives at any other await is read no earlier than one that
\* arrives at the next of these, and of two snapshots that arrive at one await
\* the code sees the later one only; a wait sees every snapshot.
WalkReadPcs == {"w_stride_ack", "w_last_ack", "m_sleep", "w_direct_ack", "w_direct_wait"}

\* The snapshots the source puts in the place of another one.
NextWalkWorlds == WalkWorlds \ {WalkWorld(TRUE, NoPlayer)}

\* The snapshot source replaces the snapshot: the player is elsewhere, or gone.
EnvMove ==
    /\ pc \in WalkReadPcs
    /\ polled
    /\ budget > 0
    /\ budget' = budget - 1
    /\ polled' = FALSE
    /\ \E w \in NextWalkWorlds : w # world /\ world' = w
    /\ UNCHANGED <<pc, loc, wf, mf, cmds, result, seen>>

----------------------------------------------------------------------------
(* The actions of walkTo and waitForMovementComplete.                      *)

WalkTo_Call ==
    /\ pc = "call" /\ loc.op = "walkTo"
    /\ Apply(WalkCall(world, loc, cmds, loc.x, loc.z, loc.tolerance, "top"))
    /\ Reads /\ UNCHANGED <<world, budget>>

\* sendFindPath(x, z) answered.
WalkTo_PathResult ==
    /\ pc = "w_path"
    /\ \E pr \in PathResults :
         LET f == [wf EXCEPT !.answered = Append(@, ~NoWaypoints(pr))]
         IN  IF NoWaypoints(pr) /\ wf.distD2 > LONG_RANGE * LONG_RANGE
             THEN LET cands == Candidates(wf.currentX, wf.currentZ, wf.x, wf.z)
                  IN  Apply(Cfg("w_mid", loc, [f EXCEPT !.cands = Tail(cands)], NoFrame,
                                Append(cmds, FindPathCmd(cands[1][1], cands[1][2])), NoResult))
             ELSE Apply(AfterSearch(loc, f, cmds, pr))
    /\ NoRead /\ UNCHANGED <<world, budget>>

\* sendFindPath(intermediateX, intermediateZ) answered.
WalkTo_MidResult ==
    /\ pc = "w_mid"
    /\ \E pr \in PathResults :
         LET f == [wf EXCEPT !.answered = Append(@, ~NoWaypoints(pr))]
         IN  IF NoWaypoints(pr) /\ wf.cands # <<>>
             THEN Apply(Cfg("w_mid", loc, [f EXCEPT !.cands = Tail(wf.cands)], NoFrame,
                            Append(cmds, FindPathCmd(wf.cands[1][1], wf.cands[1][2])), NoResult))
             ELSE Apply(AfterSearch(loc, f, cmds, pr))
    /\ NoRead /\ UNCHANGED <<world, budget>>

\* sendWalk(x, z) of the fallback acknowledged: waitForCondition starts.
WalkTo_DirectAck ==
    /\ pc = "w_direct_ack"
    /\ Apply(Cfg("w_direct_wait", loc, wf, NoFrame, cmds, NoResult))
    /\ NoRead /\ UNCHANGED <<world, budget>>

\* Lines 456-460: the predicate of the fallback's wait.
DirectArrived(w, f) ==
    w.synced /\ w.player.present
    /\ WithinTol(Dist2(w.player.x, w.player.z, f.x, f.z), f.tolerance)

WalkTo_DirectPoll ==
    /\ pc = "w_direct_wait" /\ ~polled
    /\ IF DirectArrived(world, wf)
       THEN Apply(WalkReturn(loc, wf, cmds, ResultAt(TRUE, "Arrived", wf.x, wf.z)))
       ELSE polled' = TRUE /\ UNCHANGED <<pc, loc, wf, mf, cmds, result>>
    /\ Reads /\ UNCHANGED <<world, budget>>

WalkTo_DirectTimeout ==
    /\ pc = "w_direct_wait" /\ polled
    /\ Apply(WalkReturn(loc, wf, cmds, ResultAt(FALSE, "No path found", wf.x, wf.z)))
    /\ NoRead /\ UNCHANGED <<world, budget>>

\* sendWalk(wp) of a stride acknowledged: waitForMovementComplete is called.
WalkTo_StrideAck ==
    /\ pc = "w_stride_ack"
    /\ LET wp == wf.waypoints[wf.wpIndex + 1]
       IN  Apply(WmcCall(world, loc, wf, cmds, wp[1], wp[2], 3, "stride"))
    /\ Reads /\ UNCHANGED <<world, budget>>

\* sendWalk(lastWp) acknowledged: waitForMovementComplete is called.
WalkTo_LastAck ==
    /\ pc = "w_last_ack"
    /\ LET wp == Last(wf.waypoints)
       IN  Apply(WmcCall(world, loc, wf, cmds, wp[1], wp[2], 3, "last"))
    /\ Reads /\ UNCHANGED <<world, budget>>

\* The sleep of a poll is over: the loop body runs, and the loop condition.
Wmc_Poll ==
    /\ pc = "m_sleep"
    /\ LET r == WmcPoll(world, mf)
       IN  IF r.done
           THEN Apply(WmcReturn(world, loc, wf, r.frame, cmds, r.res))
           ELSE Apply(Cfg("m_sleep", loc, wf, r.frame, cmds, NoResult))
    /\ Reads /\ UNCHANGED <<world, budget>>

\* The arguments of a call; w0 is the snapshot at the call (history).
WalkArgs(w) ==
    {[op |-> "walkTo", x |-> Goal[1], z |-> Goal[2], tolerance |-> t, w0 |-> w] :
        t \in Tolerances}

InitWalk ==
    /\ world \in WalkWorlds
    /\ loc \in WalkArgs(world)
    /\ seen = <<0, 0>>
    /\ pc = "call"
    /\ wf = NoFrame /\ mf = NoFrame
    /\ polled = TRUE
    /\ cmds = <<>>
    /\ result = NoResult
    /\ budget = MaxEnvSteps

NextWalk ==
    \/ WalkTo_Call
    \/ WalkTo_PathResult
    \/ WalkTo_MidResult
    \/ WalkTo_DirectAck
    \/ WalkTo_DirectPoll
    \/ WalkTo_DirectTimeout
    \/ WalkTo_StrideAck
    \/ WalkTo_LastAck
    \/ Wmc_Poll
    \/ EnvMove

SpecWalk == InitWalk /\ [][NextWalk]_vars

----------------------------------------------------------------------------
(* waitForMovementComplete on its own.                                     *)

Wmc_Call ==
    /\ pc = "call" /\ loc.op = "waitForMovementComplete"
    /\ Apply(WmcCall(world, loc, NoFrame, cmds, loc.x, loc.z, loc.tolerance, "top"))
    /\ Reads /\ UNCHANGED <<world, budget>>

MoveArgs(w) ==
    {[op |-> "waitForMovementComplete", x |-> Goal[1], z |-> Goal[2], tolerance |-> t,
      w0 |-> w] : t \in Tolerances}

InitMove ==
    /\ world \in WalkWorlds
    /\ loc \in MoveArgs(world)
    /\ seen = <<0, 0>>
    /\ pc = "call"
    /\ wf = NoFrame /\ mf = NoFrame
    /\ polled = TRUE
    /\ cmds = <<>>
    /\ result = NoResult
    /\ budget = MaxMoveSteps

NextMove ==
    \/ Wmc_Call
    \/ Wmc_Poll
    \/ EnvMove

SpecMove == InitMove /\ [][NextMove]_vars

----------------------------------------------------------------------------
(* Properties of walkTo and waitForMovementComplete.                       *)

StartWithin ==
    /\ HasPlayer(loc.w0)
    /\ Dist2(loc.w0.player.x, loc.w0.player.z, loc.x, loc.z) <= loc.tolerance * loc.tolerance

\* C1: walkTo called with the player within `tolerance` of (x, z), in a straight
\* line, returns success at once and sends no command: no path query, no walk.
C1_WithinToleranceNoCommand ==
    (loc.op = "walkTo" /\ StartWithin) =>
        /\ pc \in {"call", "done"}
        /\ cmds = <<>>
        /\ pc = "done" => Returned(result) /\ result.success

\* The player starts at a distance of exactly `tolerance`, and walkTo returned.
C1_Witness ==
    /\ loc.op = "walkTo" /\ pc = "done"
    /\ HasPlayer(loc.w0)
    /\ Dist2(loc.w0.player.x, loc.w0.player.z, loc.x, loc.z) = loc.tolerance * loc.tolerance
    /\ result.success /\ cmds = <<>>

\* No snapshot has replaced the one of the call: the position is frozen.
Frozen == budget = MaxMoveSteps

\* C5: waitForMovementComplete with the player at one position in every poll,
\* farther than `tolerance` from the target, returns {arrived: false,
\* stoppedMoving: true} at the first poll at which the position has been
\* unchanged for more than 600 ms, which is before the 2000 ms the timeout is at
\* least; it never sleeps again once that is so, and it never throws.
C5_FrozenReportsStuck ==
    loc.op = "waitForMovementComplete" =>
        /\ pc = "m_sleep" => mf.idle <= 600
        /\ pc = "done" => Returned(result)
        /\ (Frozen /\ HasPlayer(loc.w0) /\ ~StartWithin /\ pc = "done") =>
              /\ result.move = MoveResult(FALSE, TRUE, loc.w0.player.x, loc.w0.player.z)
              /\ mf.elapsed > 600 /\ mf.elapsed - 150 <= 600
              /\ mf.elapsed < 2000

C5_Witness ==
    /\ loc.op = "waitForMovementComplete" /\ pc = "done"
    /\ Frozen /\ HasPlayer(loc.w0) /\ ~StartWithin
    /\ ~result.move.arrived /\ result.move.stoppedMoving
    /\ mf.elapsed = 750

IsWaypointWalk(e) == e.c = "walk" /\ e.src \in {"stride", "last"}
WaypointWalks(c) == SelectSeq(c, IsWaypointWalk)

\* C7: in one attempt of walkTo over a path of k waypoints the stride loop
\* sends its walk commands to the waypoints 4, 9, 14, ... only (to k - 1 when
\* k < 5); a walk to a waypoint is followed by a completed
\* waitForMovementComplete before anything else is sent; over 6 waypoints the
\* attempt walks to waypoint 4 and then to the last one; and a
\* waitForMovementComplete that ends with the player within tolerance of the
\* goal ends walkTo, with success.
C7_StridesOfFive ==
    (loc.op = "walkTo" /\ pc # "call") =>
        LET k == Len(wf.waypoints)
            walks == WaypointWalks(cmds)
        IN  /\ \A i \in 1..Len(cmds) :
                  (cmds[i].c = "walk" /\ cmds[i].src = "stride") =>
                      \/ cmds[i].wp % 5 = 4
                      \/ k < 5 /\ cmds[i].wp = k - 1
            /\ \A i \in 1..(Len(cmds) - 1) :
                  IsWaypointWalk(cmds[i]) => cmds[i + 1].c = "settled"
            /\ k = 6 =>
                  /\ Len(walks) <= 2
                  /\ Len(walks) >= 1 => walks[1].src = "stride" /\ walks[1].wp = 4
                  /\ Len(walks) >= 2 => walks[2].src = "last" /\ walks[2].wp = 5
            /\ \A i \in 1..Len(cmds) :
                  ( /\ cmds[i].c = "settled" /\ cmds[i].player.present
                    /\ Dist2(cmds[i].player.x, cmds[i].player.z, wf.x, wf.z)
                          <= wf.tolerance * wf.tolerance ) =>
                      i = Len(cmds) /\ pc = "done" /\ result.success

\* Six waypoints: a stride to waypoint 4, the walk to the last one, arrival.
C7_Witness ==
    /\ loc.op = "walkTo" /\ pc = "done" /\ result.success
    /\ Len(wf.waypoints) = 6
    /\ Len(cmds) = 5
    /\ cmds[1].c = "findPath"
    /\ cmds[2].c = "walk" /\ cmds[2].wp = 4 /\ cmds[3].c = "settled"
    /\ cmds[4].c = "walk" /\ cmds[4].wp = 5 /\ cmds[5].c = "settled"

\* sqrt(beforeD2) - sqrt(afterD2) >= 5: the attempt brought the player at least
\* 5 tiles closer.
CloserByFive(beforeD2, afterD2) ==
    /\ beforeD2 >= afterD2 + 25
    /\ (beforeD2 - afterD2 - 25) * (beforeD2 - afterD2 - 25) >= 100 * afterD2

ThreeLowAttempts(h) ==
    Len(h) = 3 /\ \A i \in 1..3 : ~CloserByFive(h[i][1], h[i][2])

IsStuck == pc = "done" /\ Returned(result) /\ result.message = "Stuck"

\* C8 as stated: walkTo returns the Stuck failure exactly when each of the last
\* three attempts reduced the distance by less than 5, and the failure carries
\* the position the code read last.
C8_StuckCarriesLastObserved ==
    (loc.op = "walkTo" /\ pc # "call") =>
        /\ IsStuck <=> ThreeLowAttempts(wf.hist)
        /\ IsStuck => <<result.x, result.z>> = seen

\* What the code does: walkTo returns the Stuck failure exactly when each of the last
\* three attempts reduced the distance to the goal by less than 5 (an attempt
\* that reduces it by 5 or more starts the count again); the failure carries
\* the player's position in the snapshot read at the end of the third attempt
\* or, when that snapshot has no player, the position read when that attempt
\* started.
C8_StuckAfterThreeLowAttempts ==
    (loc.op = "walkTo" /\ pc # "call") =>
        /\ IsStuck <=> ThreeLowAttempts(wf.hist)
        /\ wf.stuckCount < 3 => (pc # "done" \/ ~IsStuck)
        /\ IsStuck =>
              IF HasPlayer(world)
              THEN <<result.x, result.z>> = <<world.player.x, world.player.z>>
              ELSE <<result.x, result.z>> = <<wf.currentX, wf.currentZ>>

\* Stuck, after an attempt that made progress had started the count again.
C8_Witness ==
    /\ loc.op = "walkTo" /\ IsStuck
    /\ wf.query >= 3
    /\ HasPlayer(world)

----------------------------------------------------------------------------
(* Chat messages and option texts.  A text is a sequence of words;         *)
(* toLowerCase maps each word, includes looks for the phrase's words in a  *)
(* row.                                                                    *)

\* The words of the model that have capitals, and their lower case.
Capitals ==
    { <<"I", "i">>, <<"You", "you">>, <<"Your", "your">>, <<"Cannot", "cannot">>,
      <<"Someone", "someone">>, <<"Welcome", "welcome">>, <<"Attack", "attack">>,
      <<"Talk-to", "talk-to">>, <<"Goblin", "goblin">>, <<"Man", "man">>,
      <<"Open", "open">>, <<"Close", "close">>, <<"Door", "door">>, <<"Tree", "tree">>,
      <<"Eat", "eat">>, <<"Wield", "wield">>, <<"Trade", "trade">>, <<"Drop", "drop">>,
      <<"Shopkeeper", "shopkeeper">>, <<"Magic", "magic">>, <<"Tinderbox", "tinderbox">>,
      <<"Logs", "logs">>, <<"Shrimps", "shrimps">>, <<"Sword", "sword">>,
      <<"Coins", "coins">>, <<"Chop", "chop">>, <<"Gate", "gate">>, <<"Knock", "knock">>,
      <<"Shopkeeper", "shopkeeper">>, <<"Trade", "trade">> }

LowerWord == [w \in {p[1] : p \in Capitals} |-> (CHOOSE p \in Capitals : p[1] = w)[2]]

ToLowerCase(text) ==
    [i \in DOMAIN text |-> IF text[i] \in DOMAIN LowerWord THEN LowerWord[text[i]] ELSE text[i]]

Includes(text, phrase) ==
    \E i \in 0..(Len(text) - Len(phrase)) :
        \A j \in 1..Len(phrase) : text[i + j] = phrase[j]

TextReach == <<"I", "can't", "reach", "that!">>
TextCannotReach == <<"You", "Cannot", "reach", "that.">>
TextFighting == <<"Someone", "else", "is", "fighting", "that.">>
TextWelcome == <<"Welcome", "back.">>

Message(text, tick) == [text |-> text, tick |-> tick]

\* Lines 1054 and 1078: the text tells that the target cannot be reached.
IsUnreachableText(text) ==
    LET t == ToLowerCase(text)
    IN  Includes(t, <<"can't", "reach">>) \/ Includes(t, <<"cannot", "reach">>)

\* Lines 1057 and 1081: the text tells that the target is in combat already.
IsInCombatText(text) ==
    LET t == ToLowerCase(text)
    IN  \/ Includes(t, <<"someone", "else", "is", "fighting">>)
        \/ Includes(t, <<"already", "under", "attack">>)

IsNewAtOrAfter(msg, startTick) == msg.tick >= startTick

\* msg.tick > startTick.
IsNew(msg, startTick) == msg.tick > startTick

\* o => /attack/i.test(o.text), on the one-word option texts of the model.
IsAttackOption(o) == ToLowerCase(<<o.text>>) = <<"attack">>

\* optionsWithIndex.find(test): the first option that passes, or none.
FindOption(options, Test(_)) ==
    LET hits == {i \in DOMAIN options : Test(options[i])}
    IN  IF hits = {} THEN [found |-> FALSE]
        ELSE LET i == CHOOSE k \in hits : \A m \in hits : k <= m
             IN  [found |-> TRUE, text |-> options[i].text, opIndex |-> options[i].opIndex]

----------------------------------------------------------------------------
(* attackNpc(target, timeout).                                             *)

MaxAttackSteps == 2

Npc(index, name, distance, options) ==
    [index |-> index, name |-> name, distance |-> distance, options |-> options]

Option(text, opIndex) == [text |-> text, opIndex |-> opIndex]

Goblin(distance) == Npc(7, "Goblin", distance, <<Option("Talk-to", 1), Option("Attack", 2)>>)
Man == Npc(3, "Man", 1, <<Option("Talk-to", 1)>>)

NoNpc == [found |-> FALSE]
FoundNpc(n) == [found |-> TRUE, npc |-> n]

\* sdk.findNearbyNpc(pattern): the first NPC of the snapshot whose name
\* matches, none without a snapshot.
FindNearbyNpc(w, pattern) ==
    IF ~w.synced THEN NoNpc
    ELSE LET hits == {i \in DOMAIN w.npcs : ToLowerCase(<<w.npcs[i].name>>) = <<pattern>>}
         IN  IF hits = {} THEN NoNpc
             ELSE FoundNpc(w.npcs[CHOOSE k \in hits : \A m \in hits : k <= m])

\* resolveNpc: a handle as it is, a pattern through the snapshot.
ResolveNpc(w, target) ==
    IF target.handle THEN FoundNpc(target.npc) ELSE FindNearbyNpc(w, target.pattern)

\* state.nearbyNpcs.find(n => n.index === npc.index)
NpcByIndex(s, index) ==
    LET hits == {i \in DOMAIN s.npcs : s.npcs[i].index = index}
    IN  IF hits = {} THEN NoNpc
        ELSE FoundNpc(s.npcs[CHOOSE k \in hits : \A m \in hits : k <= m])

InteractNpcCmd(index, opIndex) == [c |-> "interactNpc", index |-> index, opIndex |-> opIndex]

\* getState()?.tick || 0
TickOrZero(w) == IF w.synced THEN w.tick ELSE 0

\* Lines 1050-1073: the predicate attackNpc waits for.
AttackSettled(s, f) ==
    \/ \E i \in DOMAIN s.msgs :
          /\ IsNew(s.msgs[i], f.startTick)
          /\ IsUnreachableText(s.msgs[i].text) \/ IsInCombatText(s.msgs[i].text)
    \/ ~NpcByIndex(s, f.npc.index).found
    \/ NpcByIndex(s, f.npc.index).npc.distance <= 2

\* Lines 1075-1087: the result over the snapshot the wait returned.
AttackVerdict(s, f) ==
    LET hits == {i \in DOMAIN s.msgs :
                    /\ IsNew(s.msgs[i], f.startTick)
                    /\ IsUnreachableText(s.msgs[i].text) \/ IsInCombatText(s.msgs[i].text)}
    IN  IF hits = {} THEN Result(TRUE, "Attacking", "none")
        ELSE LET first == CHOOSE k \in hits : \A m \in hits : k <= m
             IN  IF IsUnreachableText(s.msgs[first].text)
                 THEN Result(FALSE, "Cannot reach", "out_of_reach")
                 ELSE Result(FALSE, "already in combat", "already_in_combat")

\* Lines 1033-1044, up to the send.
AttackCall(w, l, c) ==
    LET r == ResolveNpc(w, l.target)
    IN  IF ~r.found
        THEN Cfg("done", l, NoFrame, NoFrame, c, Result(FALSE, "NPC not found", "npc_not_found"))
        ELSE LET attackOpt == FindOption(r.npc.options, IsAttackOption)
             IN  IF ~attackOpt.found
                 THEN Cfg("done", l, NoFrame, NoFrame, c,
                          Result(FALSE, "No attack option", "no_attack_option"))
                 ELSE Cfg("a_ack", l,
                          [ret |-> "top", npc |-> r.npc, startTick |-> TickOrZero(w),
                           waited |-> FALSE, final |-> w],
                          NoFrame, Append(c, InteractNpcCmd(r.npc.index, attackOpt.opIndex)),
                          NoResult)

\* The snapshots of the attack: null before the session is synced.
AttackWorld(synced, tick, msgs, npcs) ==
    [synced |-> synced, tick |-> tick, msgs |-> msgs, npcs |-> npcs]

AttackTexts == {TextReach, TextCannotReach, TextFighting, TextWelcome}
NpcLists == {<<>>, <<Goblin(5)>>, <<Man, Goblin(1)>>}

AttackTargets ==
    {[handle |-> TRUE, npc |-> Goblin(5)], [handle |-> TRUE, npc |-> Man],
     [handle |-> FALSE, pattern |-> "goblin"]}

\* The snapshot source replaces the snapshot: the tick goes on or not, a
\* message stamped with the tick arrives or not, the NPCs move or leave.
EnvAttack ==
    /\ pc \in {"a_ack", "a_wait"}
    /\ polled
    /\ budget > 0
    /\ budget' = budget - 1
    /\ polled' = FALSE
    /\ \E synced \in BOOLEAN, tick \in {world.tick, world.tick + 1}, npcs \in {world.npcs, <<>>, <<Man, Goblin(1)>>} :
         \E msgs \in {world.msgs} \cup {Append(world.msgs, Message(t, tick)) : t \in AttackTexts} :
            /\ AttackWorld(synced, tick, msgs, npcs) # world
            /\ world' = AttackWorld(synced, tick, msgs, npcs)
    /\ UNCHANGED <<pc, loc, wf, mf, cmds, result, seen>>

AttackNpc_Call ==
    /\ pc = "call" /\ loc.op = "attackNpc"
    /\ Apply(AttackCall(world, loc, cmds))
    /\ NoRead /\ UNCHANGED <<world, budget>>

\* sendInteractNpc answered (lines 1044-1047).
AttackNpc_Ack ==
    /\ pc = "a_ack"
    /\ \E success \in BOOLEAN :
         IF success
         THEN Apply(Cfg("a_wait", loc, wf, NoFrame, cmds, NoResult))
         ELSE Apply(Cfg("done", loc, wf, NoFrame, cmds, Result(FALSE, "not sent", "none")))
    /\ NoRead /\ UNCHANGED <<world, budget>>

\* waitForCondition evaluates the predicate on the snapshot.
AttackNpc_Poll ==
    /\ pc = "a_wait" /\ ~polled
    /\ IF world.synced /\ AttackSettled(world, wf)
       THEN Apply(Cfg("done", loc, [wf EXCEPT !.waited = TRUE, !.final = world], NoFrame, cmds,
                      AttackVerdict(world, wf)))
       ELSE polled' = TRUE /\ UNCHANGED <<pc, loc, wf, mf, cmds, result>>
    /\ NoRead /\ UNCHANGED <<world, budget>>

\* waitForCondition gives up (line 1088).
AttackNpc_Timeout ==
    /\ pc = "a_wait" /\ polled
    /\ Apply(Cfg("done", loc, wf, NoFrame, cmds, Result(FALSE, "Timeout waiting to attack", "timeout")))
    /\ NoRead /\ UNCHANGED <<world, budget>>

InitAttack ==
    /\ \E synced \in BOOLEAN, tick \in {0, 1}, npcs \in NpcLists :
         \E msgs \in {<<>>} \cup {<<Message(t, k)>> : t \in AttackTexts, k \in 0..tick} :
            world = AttackWorld(synced, tick, msgs, npcs)
    /\ loc \in {[op |-> "attackNpc", target |-> t, w0 |-> world] : t \in AttackTargets}
    /\ seen = <<0, 0>>
    /\ pc = "call"
    /\ wf = NoFrame /\ mf = NoFrame
    /\ polled = TRUE
    /\ cmds = <<>>
    /\ result = NoResult
    /\ budget = MaxAttackSteps

NextAttack ==
    \/ AttackNpc_Call
    \/ AttackNpc_Ack
    \/ AttackNpc_Poll
    \/ AttackNpc_Timeout
    \/ EnvAttack

SpecAttack == InitAttack /\ [][NextAttack]_vars

\* The messages of a snapshot that are newer than the start tick.
NewMessages(s, startTick) ==
    SelectSeq(s.msgs, LAMBDA msg : msg.tick > startTick)

Waited == loc.op = "attackNpc" /\ pc = "done" /\ wf # NoFrame /\ wf.waited

\* C2 as stated: any message newer than startTick with an unreachable phrase
\* in the snapshot the wait returned makes attackNpc fail with out_of_reach.
C2_UnreachableAlwaysOutOfReach ==
    Waited =>
        ((\E i \in DOMAIN wf.final.msgs :
              /\ wf.final.msgs[i].tick > wf.startTick
              /\ IsUnreachableText(wf.final.msgs[i].text))
          => result.reason = "out_of_reach")

\* C2 (amended): startTick is the tick of the snapshot at the call, read before
\* the attack command is sent (0 without a snapshot).  The wait ends at the
\* first snapshot that holds a message newer than startTick with an
\* unreachable phrase, and attackNpc then fails with out_of_reach unless a
\* message newer than startTick with an in-combat phrase precedes it in that
\* snapshot (then: already_in_combat).  Messages with tick <= startTick have no
\* influence: alone they never end the wait, and the result is the one of the
\* same snapshot without them.
C2_NewUnreachableIsOutOfReach ==
    loc.op = "attackNpc" =>
        /\ (pc \in {"a_ack", "a_wait"} \/ Waited) =>
              /\ wf.startTick = TickOrZero(loc.w0)
              /\ Commands(cmds) = <<InteractNpcCmd(wf.npc.index, 2)>>
        /\ (pc = "a_wait" /\ polled /\ world.synced) =>
              ~\E i \in DOMAIN world.msgs :
                  world.msgs[i].tick > wf.startTick /\ IsUnreachableText(world.msgs[i].text)
        /\ Waited =>
              LET new == NewMessages(wf.final, wf.startTick)
                  reach == {i \in DOMAIN new : IsUnreachableText(new[i].text)}
                  fight == {i \in DOMAIN new : IsInCombatText(new[i].text)}
              IN  /\ result.reason = "out_of_reach" <=>
                        \E i \in reach : \A j \in fight : i <= j
                  /\ result = AttackVerdict([wf.final EXCEPT !.msgs = new], wf)
                  /\ (new = <<>>) => result.success

\* The snapshot the wait returned holds an unreachable message from before the
\* send and a newer one, in capitals: out_of_reach.
C2_Witness ==
    /\ Waited
    /\ result.reason = "out_of_reach"
    /\ \E i \in DOMAIN wf.final.msgs :
          wf.final.msgs[i].tick <= wf.startTick /\ IsUnreachableText(wf.final.msgs[i].text)
    /\ \E i \in DOMAIN wf.final.msgs :
          wf.final.msgs[i].tick > wf.startTick /\ wf.final.msgs[i].text = TextCannotReach

----------------------------------------------------------------------------
(* depositItem(target, amount).                                            *)

MaxDepositSteps == 3

Stack(slot, id, count) == [slot |-> slot, id |-> id, count |-> count]

RECURSIVE SumCounts(_)
SumCounts(stacks) ==
    IF stacks = <<>> THEN 0 ELSE Head(stacks).count + SumCounts(Tail(stacks))

\* The count of the first stack of the item only.
FirstStackCount(inventory, id) ==
    LET own == SelectSeq(inventory, LAMBDA i : i.id = id)
    IN  IF own = <<>> THEN 0 ELSE Head(own).count

\* inventory.filter(i => i.id === item.id).reduce((sum, i) => sum + i.count, 0)
TotalCount(inventory, id) ==
    SumCounts(SelectSeq(inventory, LAMBDA i : i.id = id))

\* sdk.findInventoryItem(pattern): the first stack of the snapshot's inventory
\* the pattern matches (the patterns of the model name an item id), none
\* without a snapshot.
FindInventoryItem(w, pattern) ==
    IF ~w.synced THEN [found |-> FALSE]
    ELSE LET own == SelectSeq(w.inv, LAMBDA i : i.id = pattern)
         IN  IF own = <<>> THEN [found |-> FALSE] ELSE [found |-> TRUE, item |-> Head(own)]

\* resolveInventoryItem: a handle as it is, a pattern through the snapshot.
ResolveInventoryItem(w, target) ==
    IF target.handle THEN [found |-> TRUE, item |-> target.item]
    ELSE FindInventoryItem(w, target.pattern)

BankDepositCmd(slot, amount) == [c |-> "bankDeposit", slot |-> slot, amount |-> amount]

\* A BankDepositResult that succeeded.
Deposited(amountDeposited) ==
    [kind |-> "returned", success |-> TRUE, message |-> "Deposited", reason |-> "none",
     amountDeposited |-> amountDeposited]

\* (mutant) the deposit command is sent whether or not the bank is open.
DepositCallUnchecked(w, l, c) ==
    LET r == ResolveInventoryItem(w, l.target)
    IN  IF ~r.found
        THEN Cfg("done", l, NoFrame, NoFrame, c,
                 Result(FALSE, "Item not found in inventory", "item_not_found"))
        ELSE Cfg("d_ack", l,
                 [ret |-> "top", item |-> r.item, countBefore |-> TotalCount(w.inv, r.item.id),
                  sent |-> "unknown"],
                 NoFrame, Append(c, BankDepositCmd(r.item.slot, l.amount)), NoResult)

\* Lines 869-881, up to the send.
DepositCall(w, l, c) ==
    IF ~(w.synced /\ w.iface)
    THEN Cfg("done", l, NoFrame, NoFrame, c, Result(FALSE, "Bank is not open", "bank_not_open"))
    ELSE LET r == ResolveInventoryItem(w, l.target)
         IN  IF ~r.found
             THEN Cfg("done", l, NoFrame, NoFrame, c,
                      Result(FALSE, "Item not found in inventory", "item_not_found"))
             ELSE Cfg("d_ack", l,
                      [ret |-> "top", item |-> r.item, countBefore |-> TotalCount(w.inv, r.item.id),
                       sent |-> "unknown"],
                      NoFrame, Append(c, BankDepositCmd(r.item.slot, l.amount)), NoResult)

\* Lines 884-887: the predicate depositItem waits for.
DepositSeen(s, f) == TotalCount(s.inv, f.item.id) < f.countBefore

\* Lines 889-893: the result, over the snapshot read after the wait.
DepositResult(w, f) ==
    LET countAfter == IF w.synced THEN TotalCount(w.inv, f.item.id) ELSE 0
    IN  Deposited(f.countBefore - countAfter)

BankWorld(synced, iface, inv) == [synced |-> synced, iface |-> iface, inv |-> inv]

Coins == 995
Logs == 1511

Inventories ==
    { <<>>,
      <<Stack(2, Logs, 1)>>,
      <<Stack(2, Logs, 1), Stack(5, Coins, 5)>>,
      <<Stack(0, Coins, 7), Stack(2, Logs, 1), Stack(5, Coins, 5)>>,
      <<Stack(0, Coins, 9), Stack(5, Coins, 5)>> }

DepositTargets ==
    {[handle |-> TRUE, item |-> Stack(0, Coins, 7)], [handle |-> FALSE, pattern |-> Coins],
     [handle |-> FALSE, pattern |-> Logs]}

EnvDeposit ==
    /\ pc \in {"d_ack", "d_wait", "d_read"}
    /\ polled
    /\ budget > 0
    /\ budget' = budget - 1
    /\ polled' = FALSE
    /\ \E synced \in BOOLEAN, inv \in Inventories :
         /\ BankWorld(synced, world.iface, inv) # world
         /\ world' = BankWorld(synced, world.iface, inv)
    /\ UNCHANGED <<pc, loc, wf, mf, cmds, result, seen>>

DepositItem_Call ==
    /\ pc = "call" /\ loc.op = "depositItem"
    /\ Apply(DepositCall(world, loc, cmds))
    /\ NoRead /\ UNCHANGED <<world, budget>>

\* sendBankDeposit answered (line 881): what it answers is not looked at.
DepositItem_Ack ==
    /\ pc = "d_ack"
    /\ \E success \in BOOLEAN :
         Apply(Cfg("d_wait", loc, [wf EXCEPT !.sent = success], NoFrame, cmds, NoResult))
    /\ NoRead /\ UNCHANGED <<world, budget>>

\* waitForCondition evaluates the predicate on the snapshot.
DepositItem_Poll ==
    /\ pc = "d_wait" /\ ~polled
    /\ IF world.synced /\ DepositSeen(world, wf)
       THEN Apply(Cfg("d_read", loc, wf, NoFrame, cmds, NoResult))
       ELSE polled' = TRUE /\ UNCHANGED <<pc, loc, wf, mf, cmds, result>>
    /\ NoRead /\ UNCHANGED <<world, budget>>

\* waitForCondition returned: lines 889-893.
DepositItem_Read ==
    /\ pc = "d_read"
    /\ Apply(Cfg("done", loc, wf, NoFrame, cmds, DepositResult(world, wf)))
    /\ NoRead /\ UNCHANGED <<world, budget>>

\* waitForCondition gives up (line 894).
DepositItem_Timeout ==
    /\ pc = "d_wait" /\ polled
    /\ Apply(Cfg("done", loc, wf, NoFrame, cmds, Result(FALSE, "Timeout waiting for deposit", "timeout")))
    /\ NoRead /\ UNCHANGED <<world, budget>>

InitDeposit ==
    /\ world \in {BankWorld(synced, iface, inv) : synced \in BOOLEAN, iface \in BOOLEAN, inv \in Inventories}
    /\ loc \in {[op |-> "depositItem", target |-> t, amount |-> a, w0 |-> world] :
                   t \in DepositTargets, a \in {-1, 5}}
    /\ seen = <<0, 0>>
    /\ pc = "call"
    /\ wf = NoFrame /\ mf = NoFrame
    /\ polled = TRUE
    /\ cmds = <<>>
    /\ result = NoResult
    /\ budget = MaxDepositSteps

NextDeposit ==
    \/ DepositItem_Call
    \/ DepositItem_Ack
    \/ DepositItem_Poll
    \/ DepositItem_Read
    \/ DepositItem_Timeout
    \/ EnvDeposit

SpecDeposit == InitDeposit /\ [][NextDeposit]_vars

\* The units of the item in all the stacks of an inventory, counted one stack
\* after the other.
UnitsOf(inventory, id) ==
    LET Own(k) == IF inventory[k].id = id THEN inventory[k].count ELSE 0
        sums[k \in 0..Len(inventory)] == IF k = 0 THEN 0 ELSE sums[k - 1] + Own(k)
    IN  sums[Len(inventory)]

\* C3: when depositItem returns success, amountDeposited is the number of units
\* of the item in all the inventory stacks of the snapshot of the call (before
\* the deposit command) minus their number in the snapshot read after the wait
\* (0 when there is none then); what sendBankDeposit answered plays no part.
C3_DepositedIsCountDifference ==
    (loc.op = "depositItem" /\ pc = "done" /\ result.success) =>
        /\ wf.sent \in BOOLEAN
        /\ result.amountDeposited =
              UnitsOf(loc.w0.inv, wf.item.id)
              - (IF world.synced THEN UnitsOf(world.inv, wf.item.id) ELSE 0)

\* 12 before in two stacks, 5 after, 7 deposited, and the command was refused.
C3_Witness ==
    /\ loc.op = "depositItem" /\ pc = "done" /\ result.success
    /\ wf.sent = FALSE
    /\ UnitsOf(loc.w0.inv, wf.item.id) = 12
    /\ world.synced /\ UnitsOf(world.inv, wf.item.id) = 5
    /\ result.amountDeposited = 7

----------------------------------------------------------------------------
(* sellToShop(target, amount) and sellAllToShop.                           *)

MaxShopSteps == 3

TextNotThisShop == <<"You", "can't", "sell", "this", "item", "to", "this", "shop", ".">>
TextNotAnyShop == <<"You", "can't", "sell", "this", "item", "to", "a", "shop", ".">>
TextNotTradeable == <<"You", "can't", "sell", "this", "item", ".">>

CantSell == <<"can't", "sell", "this", "item">>

\* Lines 720 and 743: the text tells that the item was not sold.
IsRejectionText(text) == Includes(ToLowerCase(text), CantSell)
\* Line 733.
IsNotThisShopText(text) == Includes(ToLowerCase(text), CantSell \o <<"to", "this", "shop">>)
\* Line 671.
IsNotAnyShopText(text) == Includes(ToLowerCase(text), CantSell \o <<"to", "a", "shop">>)

ShopSellCmd(slot, amount) == [c |-> "shopSell", slot |-> slot, amount |-> amount]
NoSell == [any |-> FALSE]

\* A ShopSellResult; hasAmount tells whether it carries amountSold.
SellResult(success, message, hasAmount, amountSold, rejected) ==
    [kind |-> "returned", success |-> success, message |-> message, reason |-> "none",
     hasAmount |-> hasAmount, amountSold |-> amountSold, rejected |-> rejected]

\* The first message newer than startTick that tells a rejection: 0 if none.
FirstRejection(s, startTick) ==
    LET hits == {i \in DOMAIN s.msgs :
                    IsNew(s.msgs[i], startTick) /\ IsRejectionText(s.msgs[i].text)}
    IN  IF hits = {} THEN 0 ELSE CHOOSE k \in hits : \A m \in hits : k <= m

\* resolveShopItem(target, items): by the id of a handle, or by name.
ResolveShopItem(target, items) ==
    LET own == IF target.handle THEN SelectSeq(items, LAMBDA i : i.id = target.item.id)
               ELSE SelectSeq(items, LAMBDA i : i.id = target.pattern)
    IN  IF own = <<>> THEN [found |-> FALSE] ELSE [found |-> TRUE, item |-> Head(own)]

\* The units a batch is told to have sold, were the request taken for it.
SoldAsRequested(before, after, requested) == requested

\* Line 755: soldThisRound.
SoldThisRound(before, after, requested) == before - after

\* Lines 767-771: the loop of sellAllToShop is left by a break.
SellAllEnd(l, f, c, why) ==
    Cfg("done", l, [f EXCEPT !.exit = why], NoFrame, c,
        IF f.totalSold = 0
        THEN SellResult(FALSE, "Failed to sell any", FALSE, 0, FALSE)
        ELSE SellResult(TRUE, "Sold", TRUE, f.totalSold, FALSE))

\* (mutant) every batch asks for ten.
SellAmountTen(count) == 10

\* Line 708: sellAmount.
SellAmount(count) == Min(10, count)

\* Lines 696-711: the head of the loop of sellAllToShop, up to the send.
SellAllLoop(w, l, f, c) ==
    IF ~(w.synced /\ w.open) THEN SellAllEnd(l, f, c, "shop_closed")
    ELSE LET own == SelectSeq(w.items, LAMBDA i : i.id = f.sellItem.id)
         IN  IF own = <<>> \/ Head(own).count = 0 THEN SellAllEnd(l, f, c, "none_left")
             ELSE LET sellAmount == SellAmount(Head(own).count)
                  IN  Cfg("s_ack", l,
                          [f EXCEPT !.before = TotalCount(w.items, f.sellItem.id),
                                    !.requested = sellAmount,
                                    !.batches = f.batches + 1],
                          NoFrame, Append(c, ShopSellCmd(Head(own).slot, sellAmount)), NoResult)

\* The requested amount is sent as it is.
ValidAmountAsAsked(amount) == amount

\* Line 639: [1, 5, 10].includes(amount) ? amount : 1.
ValidAmount(amount) == IF amount \in {1, 5, 10} THEN amount ELSE 1

\* Lines 623-644 of sellToShop, up to the first send.
SellCall(w, l, c) ==
    IF ~(w.synced /\ w.open)
    THEN Cfg("done", l, NoFrame, NoFrame, c, SellResult(FALSE, "Shop is not open", FALSE, 0, FALSE))
    ELSE LET r == ResolveShopItem(l.target, w.items)
         IN  IF ~r.found
             THEN Cfg("done", l, NoFrame, NoFrame, c,
                      SellResult(FALSE, "Item not found to sell", FALSE, 0, FALSE))
             ELSE LET f == [ret |-> "top", sellItem |-> r.item, startTick |-> TickOrZero(w),
                            all |-> l.all, totalSold |-> 0, before |-> TotalCount(w.items, r.item.id),
                            requested |-> 0, batches |-> 0, exit |-> "none"]
                      validAmount == ValidAmount(l.amount)
                  IN  IF l.all THEN SellAllLoop(w, l, f, c)
                      ELSE Cfg("s_ack", l, [f EXCEPT !.requested = validAmount], NoFrame,
                               Append(c, ShopSellCmd(r.item.slot, validAmount)), NoResult)

\* Lines 651-663 and 717-728: the predicate a sale waits for.
SaleSettled(s, f) ==
    \/ FirstRejection(s, f.startTick) # 0
    \/ TotalCount(s.items, f.sellItem.id) < f.before

\* (mutant) the count is looked at before the messages.
SellVerdictCountFirst(s, f) ==
    LET rej == FirstRejection(s, f.startTick)
    IN  IF rej # 0 /\ ~(TotalCount(s.items, f.sellItem.id) < f.before)
        THEN SellResult(FALSE,
                 IF IsNotThisShopText(s.msgs[rej].text) THEN "Shop doesn't buy"
                 ELSE IF IsNotAnyShopText(s.msgs[rej].text) THEN "Cannot sell to any shop"
                 ELSE "not tradeable", FALSE, 0, TRUE)
        ELSE SellResult(TRUE, "Sold", TRUE, f.before - TotalCount(s.items, f.sellItem.id), FALSE)

\* Lines 665-683: the result of sellToShop with a number.
SellVerdict(s, f) ==
    LET rej == FirstRejection(s, f.startTick)
    IN  IF rej # 0
        THEN SellResult(FALSE,
                 IF IsNotThisShopText(s.msgs[rej].text) THEN "Shop doesn't buy"
                 ELSE IF IsNotAnyShopText(s.msgs[rej].text) THEN "Cannot sell to any shop"
                 ELSE "not tradeable", FALSE, 0, TRUE)
        ELSE SellResult(TRUE, "Sold", TRUE, f.before - TotalCount(s.items, f.sellItem.id), FALSE)

\* (mutant) the loop goes on whatever the batch brought.
SellAllBatchGoesOn(s, l, f, c) == Cfg("s_loop", l, f, NoFrame, c, NoResult)

\* Lines 730-760: a batch of sellAllToShop after its wait.
SellAllBatch(s, l, f, c) ==
    LET rej == FirstRejection(s, f.startTick)
        sold == SoldThisRound(f.before, TotalCount(s.items, f.sellItem.id), f.requested)
        g == [f EXCEPT !.totalSold = f.totalSold + sold]
    IN  IF rej # 0
        THEN Cfg("done", l, [f EXCEPT !.exit = "rejected"], NoFrame, c,
                 IF IsNotThisShopText(s.msgs[rej].text)
                 THEN SellResult(f.totalSold > 0,
                                 IF f.totalSold > 0 THEN "then shop stopped buying"
                                 ELSE "Shop doesn't buy", TRUE, f.totalSold, TRUE)
                 ELSE SellResult(FALSE, "cannot be sold", TRUE, f.totalSold, TRUE))
        ELSE IF sold = 0 THEN SellAllEnd(l, g, c, "no_progress")
             ELSE Cfg("s_loop", l, g, NoFrame, c, NoResult)

ShopWorld(synced, open, items, tick, msgs, pending) ==
    [synced |-> synced, open |-> open, items |-> items, tick |-> tick, msgs |-> msgs,
     pending |-> pending]

ShopInventories ==
    { <<>>,
      <<Stack(1, Coins, 3)>>,
      <<Stack(0, Logs, 12)>>,
      <<Stack(0, Logs, 1), Stack(1, Coins, 3), Stack(2, Logs, 2)>> }

ShopTexts == {TextNotThisShop, TextNotAnyShop, TextNotTradeable, TextWelcome}

SellTargets == {[handle |-> TRUE, item |-> Stack(0, Logs, 12)], [handle |-> FALSE, pattern |-> Logs]}

\* The stacks after k units left the stack in `slot`; an empty stack is gone.
RemoveUnits(items, slot, k) ==
    SelectSeq([i \in DOMAIN items |->
                  IF items[i].slot = slot THEN [items[i] EXCEPT !.count = @ - k] ELSE items[i]],
              LAMBDA i : i.count > 0)

\* The command the segment sent, as the shop has it to carry out.
Sent(w, n) ==
    IF n.pc = "s_ack"
    THEN [w EXCEPT !.pending = [any |-> TRUE, slot |-> Last(n.cmds).slot, amount |-> Last(n.cmds).amount]]
    ELSE w

\* The shop and the snapshot source: the pending sale is carried out (all of it
\* or one unit), a message stamped with the tick arrives, one unit is sold and
\* the rest refused in one snapshot, or the shop closes or the snapshot goes.
EnvShop ==
    /\ pc \in {"s_ack", "s_wait", "s_loop"}
    /\ polled
    /\ budget > 0
    /\ budget' = budget - 1
    /\ polled' = FALSE
    /\ \E tick \in {world.tick, world.tick + 1} :
         \/ /\ world.pending.any
            /\ \E i \in DOMAIN world.items :
                 /\ world.items[i].slot = world.pending.slot
                 /\ \E k \in {1, Min(world.pending.amount, world.items[i].count)} :
                      world' = [world EXCEPT !.items = RemoveUnits(@, world.pending.slot, k),
                                             !.pending = NoSell, !.tick = tick]
         \/ \E t \in ShopTexts :
              world' = [world EXCEPT !.msgs = Append(@, Message(t, tick)), !.tick = tick]
         \/ /\ world.pending.any
            /\ \E i \in DOMAIN world.items :
                 /\ world.items[i].slot = world.pending.slot
                 /\ world' = [world EXCEPT !.items = RemoveUnits(@, world.pending.slot, 1),
                                           !.pending = NoSell, !.tick = tick,
                                           !.msgs = Append(@, Message(TextNotThisShop, tick))]
         \/ /\ tick = world.tick
            /\ \E synced \in BOOLEAN, open \in BOOLEAN :
                 /\ <<synced, open>> # <<world.synced, world.open>>
                 /\ world' = [world EXCEPT !.synced = synced, !.open = open]
    /\ UNCHANGED <<pc, loc, wf, mf, cmds, result, seen>>

SellToShop_Call ==
    /\ pc = "call" /\ loc.op = "sellToShop"
    /\ LET n == SellCall(world, loc, cmds)
       IN  Apply(n) /\ world' = Sent(world, n)
    /\ NoRead /\ UNCHANGED budget

\* sendShopSell answered (lines 641-644 and 711-714).
SellToShop_Ack ==
    /\ pc = "s_ack"
    /\ \E success \in BOOLEAN :
         IF success
         THEN Apply(Cfg("s_wait", loc, wf, NoFrame, cmds, NoResult)) /\ UNCHANGED world
         ELSE /\ world' = [world EXCEPT !.pending = NoSell]
              /\ IF wf.all
                 THEN Apply(SellAllEnd(loc, wf, cmds, "refused"))
                 ELSE Apply(Cfg("done", loc, wf, NoFrame, cmds,
                                SellResult(FALSE, "not sent", FALSE, 0, FALSE)))
    /\ NoRead /\ UNCHANGED budget

\* waitForCondition evaluates the predicate on the snapshot.
SellToShop_Poll ==
    /\ pc = "s_wait" /\ ~polled
    /\ IF world.synced /\ SaleSettled(world, wf)
       THEN IF wf.all
            THEN Apply(SellAllBatch(world, loc, wf, cmds))
            ELSE Apply(Cfg("done", loc, wf, NoFrame, cmds, SellVerdict(world, wf)))
       ELSE polled' = TRUE /\ UNCHANGED <<pc, loc, wf, mf, cmds, result>>
    /\ NoRead /\ UNCHANGED <<world, budget>>

\* The next turn of the loop of sellAllToShop reads the snapshot (line 697).
SellToShop_Loop ==
    /\ pc = "s_loop"
    /\ LET n == SellAllLoop(world, loc, wf, cmds)
       IN  Apply(n) /\ world' = Sent(world, n)
    /\ NoRead /\ UNCHANGED budget

\* waitForCondition gives up (lines 684 and 762).
SellToShop_Timeout ==
    /\ pc = "s_wait" /\ polled
    /\ IF wf.all
       THEN Apply(SellAllEnd(loc, wf, cmds, "timeout"))
       ELSE Apply(Cfg("done", loc, wf, NoFrame, cmds,
                      SellResult(FALSE, "Failed to sell (timeout)", FALSE, 0, FALSE)))
    /\ NoRead /\ UNCHANGED <<world, budget>>

InitShop ==
    /\ \E synced \in BOOLEAN, open \in BOOLEAN, items \in ShopInventories, tick \in {0, 1} :
         \E msgs \in {<<>>, <<Message(TextNotThisShop, tick)>>} :
            world = ShopWorld(synced, open, items, tick, msgs, NoSell)
    /\ loc \in {[op |-> "sellToShop", target |-> t, all |-> a[1], amount |-> a[2], w0 |-> world] :
                   t \in SellTargets, a \in {<<TRUE, 0>>, <<FALSE, 1>>, <<FALSE, 5>>, <<FALSE, 7>>}}
    /\ seen = <<0, 0>>
    /\ pc = "call"
    /\ wf = NoFrame /\ mf = NoFrame
    /\ polled = TRUE
    /\ cmds = <<>>
    /\ result = NoResult
    /\ budget = MaxShopSteps

NextShop ==
    \/ SellToShop_Call
    \/ SellToShop_Ack
    \/ SellToShop_Poll
    \/ SellToShop_Loop
    \/ SellToShop_Timeout
    \/ EnvShop

SpecShop == InitShop /\ [][NextShop]_vars

SoldAll == loc.op = "sellToShop" /\ loc.all /\ pc = "done" /\ wf # NoFrame

\* C4: sellToShop(item, 'all') called with N >= 1 units of the item in all the
\* player's stacks.  When every batch it sent was seen to reduce the count, no
\* rejection was seen and the loop ended because no unit was left, it returns
\* success with amountSold = N.  When the wait of a batch returned a snapshot
\* with a rejection message newer than startTick, it returns (it does not
\* throw) a result with amountSold < N: the units sold by the batches before.
C4_SellAllCountsEveryBatch ==
    SoldAll =>
        LET n == UnitsOf(loc.w0.items, wf.sellItem.id)
        IN  /\ Returned(result)
            /\ (wf.exit = "none_left" /\ n >= 1) =>
                  /\ result.success /\ result.hasAmount /\ result.amountSold = n
            /\ wf.exit = "rejected" =>
                  /\ result.hasAmount /\ result.rejected
                  /\ result.amountSold < n
                  /\ result.amountSold = wf.totalSold

\* 12 units in one stack were sold in two batches, of 10 and of 2.
C4_Witness ==
    /\ SoldAll /\ wf.exit = "none_left"
    /\ UnitsOf(loc.w0.items, wf.sellItem.id) = 12
    /\ Commands(cmds) = <<ShopSellCmd(0, 10), ShopSellCmd(0, 2)>>
    /\ result.amountSold = 12

\* A rejection ended the second batch: the units of the first one are reported.
C4_WitnessRejected ==
    /\ SoldAll /\ wf.exit = "rejected"
    /\ wf.batches = 2 /\ result.amountSold > 0

----------------------------------------------------------------------------
(* The other verified actions.  Each resolves its target, takes a          *)
(* baseline, sends one command and waits for the effect.                   *)

MaxActionSteps == 1

\* An inventory or equipment item, a ground item, a location.
Item(slot, id, name, options) == [slot |-> slot, id |-> id, name |-> name, options |-> options]
GroundItem(x, z, id, name) == [x |-> x, z |-> z, id |-> id, name |-> name]
Loc(x, z, id, name, distance, options) ==
    [x |-> x, z |-> z, id |-> id, name |-> name, distance |-> distance, options |-> options]

\* The first element of a list that passes the test.
Find(list, Test(_)) ==
    LET hits == SelectSeq(list, Test)
    IN  IF hits = <<>> THEN [found |-> FALSE] ELSE [found |-> TRUE, it |-> Head(hits)]

\* sdk.getInventory(): the inventory of the snapshot, empty without one.
GetInventory(w) == IF w.synced THEN w.inv ELSE <<>>

\* sdk.findInventoryItem, sdk.findEquipmentItem, sdk.findGroundItem,
\* sdk.findNearbyLoc: the first of the snapshot the pattern matches; the
\* patterns of the model are a lower-case name (items) or a set of them
\* (locations).
FindItem(list, pattern) == Find(list, LAMBDA i : ToLowerCase(<<i.name>>)[1] = pattern)
FindLocNamed(w, names) ==
    Find(IF w.synced THEN w.locs ELSE <<>>, LAMBDA o : ToLowerCase(<<o.name>>)[1] \in names)

\* resolveInventoryItem, resolveGroundItem, resolveLocation, and the handle test
\* of unequipItem: a handle as it is, a pattern (or the default pattern when
\* there is no target) through the snapshot.
Resolved(target, found) == IF target.handle THEN [found |-> TRUE, it |-> target.it] ELSE found

HasText(options, texts) == FindOption(options, LAMBDA o : ToLowerCase(<<o.text>>)[1] \in texts)

\* The first message newer than startTick that one of the tests takes: 0 if none.
FirstNew(s, startTick, Test(_)) ==
    LET hits == {i \in DOMAIN s.msgs : IsNew(s.msgs[i], startTick) /\ Test(s.msgs[i].text)}
    IN  IF hits = {} THEN 0 ELSE CHOOSE k \in hits : \A m \in hits : k <= m

TextInventoryFull == <<"Your", "inventory", "is", "too", "full", ".">>
TextNoRunes == <<"You", "do", "not", "have", "enough", "runes", ".">>
TextCantLight == <<"You", "can't", "light", "a", "fire", "here", ".">>

\* Line 349: text.includes("inventory") && text.includes("full").
IsInventoryFullText(text) ==
    Includes(ToLowerCase(text), <<"inventory">>) /\ Includes(ToLowerCase(text), <<"full">>)
\* Line 1119.
IsNoRunesText(text) ==
    \/ Includes(ToLowerCase(text), <<"do", "not", "have", "enough">>)
    \/ Includes(ToLowerCase(text), <<"don't", "have", "enough">>)
\* Lines 301-305.
IsFireFailureText(text) ==
    \/ Includes(ToLowerCase(text), <<"can't", "light", "a", "fire">>)
    \/ Includes(ToLowerCase(text), <<"you", "need", "to", "move">>)
    \/ Includes(ToLowerCase(text), <<"can't", "do", "that", "here">>)

\* A command of the verified actions.
Cmd(c, args) == [c |-> c, args |-> args]

\* The frame of a verified action: its op, what it resolved, its baseline.
Frame(op, it, startTick, base) ==
    [ret |-> "top", op |-> op, it |-> it, startTick |-> startTick, base |-> base,
     ended |-> "none", lastClick |-> 0, sentAt |-> 0]

Fail(l, c, message, reason) == Cfg("done", l, NoFrame, NoFrame, c, Result(FALSE, message, reason))
\* f.sentAt is the tick of the snapshot when the command is sent (history).
Sends(w, l, f, c, cmd) ==
    Cfg("v_ack", l, [f EXCEPT !.sentAt = TickOrZero(w)], NoFrame, Append(c, cmd), NoResult)

\* talkTo, lines 377-382, up to the send.
TalkCall(w, l, c) ==
    LET r == ResolveNpc(w, l.target)
    IN  IF ~r.found THEN Fail(l, c, "NPC not found", "none")
        ELSE Sends(w, l, Frame("talkTo", r.npc, 0, 0), c, Cmd("talkToNpc", <<r.npc.index>>))

\* pickupItem, lines 328-335, up to the send.
PickupCall(w, l, c) ==
    LET r == Resolved(l.target, FindItem(IF w.synced THEN w.ground ELSE <<>>, l.target.pattern))
    IN  IF ~r.found THEN Fail(l, c, "Item not found on ground", "item_not_found")
        ELSE Sends(w, l, Frame("pickupItem", r.it, TickOrZero(w), Len(GetInventory(w))), c,
                   Cmd("pickup", <<r.it.x, r.it.z, r.it.id>>))

\* chopTree after dismissBlockingUI, lines 238-244, up to the send.
ChopCall(w, l, c) ==
    LET r == Resolved(l.target, FindLocNamed(w, l.target.names))
    IN  IF ~r.found THEN Fail(l, c, "No tree found", "none")
        ELSE Sends(w, l, Frame("chopTree", r.it, 0, Len(GetInventory(w))), c,
                   Cmd("interactLoc", <<r.it.x, r.it.z, r.it.id, 1>>))

\* burnLogs after dismissBlockingUI, lines 269-281, up to the send.
BurnCall(w, l, c) ==
    LET tinderbox == FindItem(GetInventory(w), "tinderbox")
        logs == Resolved(l.target, FindItem(GetInventory(w), l.target.pattern))
    IN  IF ~tinderbox.found THEN Fail(l, c, "No tinderbox in inventory", "none")
        ELSE IF ~logs.found THEN Fail(l, c, "No logs in inventory", "none")
        ELSE Sends(w, l, Frame("burnLogs", logs.it, 0, IF w.synced THEN w.fm ELSE 0), c,
                   Cmd("useItemOnItem", <<tinderbox.it.slot, logs.it.slot>>))

\* equipItem, lines 933-943, up to the send.
EquipCall(w, l, c) ==
    LET r == Resolved(l.target, FindItem(GetInventory(w), l.target.pattern))
    IN  IF ~r.found THEN Fail(l, c, "Item not found", "none")
        ELSE LET equipOpt == HasText(r.it.options, {"wield", "wear", "equip"})
             IN  IF ~equipOpt.found THEN Fail(l, c, "No equip option", "none")
                 ELSE Sends(w, l, Frame("equipItem", r.it, 0, 0), c,
                            Cmd("useItem", <<r.it.slot, equipOpt.opIndex>>))

\* unequipItem, lines 960-972, up to the send.
UnequipCall(w, l, c) ==
    LET r == Resolved(l.target, FindItem(IF w.synced THEN w.equip ELSE <<>>, l.target.pattern))
    IN  IF ~r.found THEN Fail(l, c, "Item not found in equipment", "none")
        ELSE Sends(w, l, Frame("unequipItem", r.it, 0, Len(GetInventory(w))), c,
                   Cmd("useEquipmentItem", <<r.it.slot, 1>>))

\* inventory.filter(i => i.id === food.id).length
CountStacks(inventory, id) == Len(SelectSeq(inventory, LAMBDA i : i.id = id))

\* getSkill('Hitpoints')?.level ?? 10
HitpointsOrTen(w) == IF w.synced THEN w.hp ELSE 10

\* eatFood, lines 1000-1013, up to the send.
EatCall(w, l, c) ==
    LET r == Resolved(l.target, FindItem(GetInventory(w), l.target.pattern))
    IN  IF ~r.found THEN Fail(l, c, "Food not found", "none")
        ELSE LET eatOpt == HasText(r.it.options, {"eat"})
             IN  IF ~eatOpt.found THEN Fail(l, c, "No eat option", "none")
                 ELSE Sends(w, l, Frame("eatFood", r.it, 0,
                                     [hp |-> HitpointsOrTen(w),
                                      food |-> CountStacks(GetInventory(w), r.it.id)]), c,
                            Cmd("useItem", <<r.it.slot, eatOpt.opIndex>>))

\* castSpellOnNpc, lines 1094-1106, up to the send.
CastCall(w, l, c) ==
    LET r == ResolveNpc(w, l.target)
    IN  IF ~r.found THEN Fail(l, c, "NPC not found", "npc_not_found")
        ELSE IF ~w.synced THEN Fail(l, c, "No game state available", "none")
        ELSE Sends(w, l, Frame("castSpellOnNpc", r.npc, w.tick, w.magic), c,
                   Cmd("spellOnNpc", <<r.npc.index, l.spell>>))

\* l => l.x === x && l.z === z && /door|gate/i.test(l.name), first of the list.
DoorAt(locs, x, z) ==
    Find(locs, LAMBDA o : o.x = x /\ o.z = z /\ ToLowerCase(<<o.name>>)[1] \in {"door", "gate"})

InteractLoc(o, opIndex) == Cmd("interactLoc", <<o.x, o.z, o.id, opIndex>>)

HasOpen(o) == HasText(o.options, {"open"}).found
HasClose(o) == HasText(o.options, {"close"}).found

\* openDoor, lines 136-151 and 175: up to the walk, or to the send.
OpenDoorCall(w, l, c) ==
    LET r == Resolved(l.target, FindLocNamed(w, l.target.names))
    IN  IF ~r.found THEN Fail(l, c, "No door found nearby", "door_not_found")
        ELSE IF ~HasOpen(r.it)
        THEN IF HasClose(r.it)
             THEN Cfg("done", l, NoFrame, NoFrame, c, Result(TRUE, "is already open", "already_open"))
             ELSE Fail(l, c, "has no Open option", "no_open_option")
        ELSE IF r.it.distance > 2
        THEN WalkCall(w, [l EXCEPT !.door = r.it, !.far = TRUE], c, r.it.x, r.it.z, 3, "openDoor")
        ELSE Sends(w, l, Frame("openDoor", r.it, 0, 0), c,
                   InteractLoc(r.it, HasText(r.it.options, {"open"}).opIndex))

\* (mutant) the door captured before the walk is interacted with.
DoorCaptured(door, refreshedDoor) == door

\* Line 173: the door the interact command is sent for.
DoorToOpen(door, refreshedDoor) == refreshedDoor

\* (mutant) after the walk the captured door is opened without a second look.
OpenDoorWalkedUnchecked(w, l0, c, walkResult) ==
    LET l == [l0 EXCEPT !.after = [returned |-> TRUE, w |-> w, walkResult |-> walkResult]]
    IN  IF ~walkResult.success THEN Fail(l, c, "Could not walk to", "walk_failed")
        ELSE Sends(w, l, Frame("openDoor", l.door, 0, 0), c,
                   InteractLoc(l.door, HasText(l.door.options, {"open"}).opIndex))

\* openDoor, lines 152-173: walkTo returned walkResult.  l.after keeps the
\* snapshot at that moment and walkResult (history).
OpenDoorWalked(w, l0, c, walkResult) ==
    LET refreshed == DoorAt(IF w.synced THEN w.locs ELSE <<>>, l0.door.x, l0.door.z)
        l == [l0 EXCEPT !.after = [returned |-> TRUE, w |-> w, walkResult |-> walkResult]]
    IN  IF ~walkResult.success THEN Fail(l, c, "Could not walk to", "walk_failed")
        ELSE IF ~refreshed.found
        THEN Cfg("done", l, NoFrame, NoFrame, c, Result(TRUE, "is no longer visible", "none"))
        ELSE IF ~HasOpen(refreshed.it)
        THEN IF HasClose(refreshed.it)
             THEN Cfg("done", l, NoFrame, NoFrame, c, Result(TRUE, "is already open", "already_open"))
             ELSE Fail(l, c, "no longer has Open option", "no_open_option")
        ELSE Sends(w, l, Frame("openDoor", l.door, 0, 0), c,
                   InteractLoc(DoorToOpen(l.door, refreshed.it),
                               HasText(DoorToOpen(l.door, refreshed.it).options, {"open"}).opIndex))

\* The actions that read the tick only when their command has been answered
\* (lines 180 and 286), and those that never look at what the send answered.
TickAfterSend == {"openDoor", "burnLogs"}
AnswerIgnored == {"openDoor"}

\* The predicates the verified actions wait for, on a snapshot s: lines
\* 183-202, 251-257, 290-312 (but for the click), 342-355, 388, 949-950,
\* 978-980, 1019-1023, 1112-1131.
Effect(s, f) ==
    CASE f.op = "openDoor" ->
           \/ FirstNew(s, f.startTick, IsUnreachableText) # 0
           \/ ~DoorAt(s.locs, f.it.x, f.it.z).found
           \/ (HasClose(DoorAt(s.locs, f.it.x, f.it.z).it)
               /\ ~HasOpen(DoorAt(s.locs, f.it.x, f.it.z).it))
      [] f.op = "chopTree" ->
           \/ Len(s.inv) > f.base
           \/ ~Find(s.locs, LAMBDA o : o.x = f.it.x /\ o.z = f.it.z /\ o.id = f.it.id).found
      [] f.op = "burnLogs" ->
           s.fm > f.base \/ FirstNew(s, f.startTick, IsFireFailureText) # 0
      [] f.op = "pickupItem" ->
           \/ FirstNew(s, f.startTick, LAMBDA t : IsUnreachableText(t) \/ IsInventoryFullText(t)) # 0
           \/ Len(s.inv) > f.base
      [] f.op = "talkTo" -> s.dialog.isOpen
      [] f.op = "equipItem" ->
           ~Find(s.inv, LAMBDA i : i.slot = f.it.slot /\ i.id = f.it.id).found
      [] f.op = "unequipItem" ->
           Len(s.inv) > f.base \/ Find(s.inv, LAMBDA i : i.id = f.it.id).found
      [] f.op = "eatFood" ->
           s.hp > f.base.hp \/ CountStacks(s.inv, f.it.id) < f.base.food
      [] f.op = "castSpellOnNpc" ->
           \/ FirstNew(s, f.startTick, LAMBDA t : IsUnreachableText(t) \/ IsNoRunesText(t)) # 0
           \/ s.magic > f.base

\* The actions that take their result from a snapshot they read once the wait
\* has returned (lines 204 and 314), not from the one the wait returned.
ReadAfterWait == {"openDoor", "burnLogs"}

\* What a verified action returns when its wait has returned: s is the
\* snapshot the result is taken from (lines 204-228, 259-260, 314-321,
\* 357-370, 389, 953, 984-985, 1025-1026, 1133-1151).
Verdict(s, f) ==
    CASE f.op = "openDoor" ->
           IF s.synced /\ FirstNew(s, f.startTick, IsUnreachableText) # 0
           THEN Result(FALSE, "still blocked", "open_failed")
           ELSE IF ~s.synced \/ ~DoorAt(s.locs, f.it.x, f.it.z).found
                   \/ HasClose(DoorAt(s.locs, f.it.x, f.it.z).it)
           THEN Result(TRUE, "Opened", "none")
           ELSE Result(FALSE, "did not open", "open_failed")
      [] f.op = "burnLogs" ->
           IF (IF s.synced THEN s.fm ELSE 0) - f.base > 0
           THEN Result(TRUE, "Burned logs", "none")
           ELSE Result(FALSE, "Failed to light fire", "none")
      [] f.op = "pickupItem" ->
           LET k == FirstNew(s, f.startTick,
                             LAMBDA t : IsUnreachableText(t) \/ IsInventoryFullText(t))
           IN  IF k = 0 THEN Result(TRUE, "Picked up", "none")
               ELSE IF IsUnreachableText(s.msgs[k].text)
               THEN Result(FALSE, "Cannot reach", "cant_reach")
               ELSE Result(FALSE, "Inventory is full", "inventory_full")
      [] f.op = "castSpellOnNpc" ->
           LET k == FirstNew(s, f.startTick, LAMBDA t : IsUnreachableText(t) \/ IsNoRunesText(t))
           IN  IF k = 0 THEN Result(TRUE, IF s.magic > f.base THEN "Hit" ELSE "Splashed", "none")
               ELSE IF IsUnreachableText(s.msgs[k].text)
               THEN Result(FALSE, "Cannot reach", "out_of_reach")
               ELSE Result(FALSE, "Not enough runes to cast spell", "no_runes")
      [] f.op = "chopTree" -> Result(TRUE, "Chopped tree", "none")
      [] f.op = "talkTo" -> Result(TRUE, "Talking to", "none")
      [] f.op = "equipItem" -> Result(TRUE, "Equipped", "none")
      [] f.op = "unequipItem" -> Result(TRUE, "Unequipped", "none")
      [] f.op = "eatFood" -> Result(TRUE, "Ate", "none")

\* What a verified action returns when its wait has thrown: the catch
\* clauses at lines 230-232, 261-263, 322-324, 371-373, 390-392, 954-956,
\* 986-988, 1027-1029 and 1152-1154.
Caught(f) ==
    CASE f.op = "openDoor" -> Result(FALSE, "Timeout waiting for door to open", "timeout")
      [] f.op = "pickupItem" -> Result(FALSE, "Timed out waiting for pickup", "timeout")
      [] f.op = "chopTree" -> Result(FALSE, "Timed out waiting for tree chop", "none")
      [] f.op = "burnLogs" -> Result(FALSE, "Timed out waiting for fire", "none")
      [] f.op = "talkTo" -> Result(FALSE, "Timed out waiting for dialog", "none")
      [] f.op = "equipItem" -> Result(FALSE, "Failed to equip", "none")
      [] f.op = "unequipItem" -> Result(FALSE, "Failed to unequip", "none")
      [] f.op = "eatFood" -> Result(FALSE, "Failed to eat", "none")
      [] f.op = "castSpellOnNpc" -> Result(TRUE, "Splashed (timeout)", "none")

----------------------------------------------------------------------------
(* dismissBlockingUI and openBank(timeout).                                *)

MaxBankSteps == 2

\* A function that returns nothing has returned.
Void == [kind |-> "void"]

NoDialog == [isOpen |-> FALSE, options |-> <<>>]
PlainDialog == [isOpen |-> TRUE, options |-> <<>>]
ChoiceDialog == [isOpen |-> TRUE, options |-> <<[index |-> 1, text |-> "Yes"], [index |-> 2, text |-> "No"]>>]

\* on: the dialog of the snapshot the click was decided on.
ClickDialogCmd(index, on) == [c |-> "clickDialog", index |-> index, on |-> on]
InteractLocCmd(id, opIndex) == [c |-> "interactLoc", id |-> id, opIndex |-> opIndex]

MAX_ATTEMPTS == 10
WAIT_SLICE == 2000
CLICK_PAUSE == 300

ClickZero(dialog) == 0

\* Lines 826-827: opt?.index ?? 0 with opt the first option of the dialog.
ClickIndex(dialog) == IF dialog.options = <<>> THEN 0 ELSE dialog.options[1].index

\* Lines 836-841: after the loop of openBank.
OpenBankFinal(w, l, f, m, c) ==
    Cfg("done", l, f, m, c,
        IF w.synced /\ w.iface THEN Result(TRUE, "Bank opened", "none")
        ELSE Result(FALSE, "Timeout waiting for bank interface to open", "timeout"))

\* Lines 812-817: the head of the loop of openBank.
OpenBankLoop(w, l, f, m, c) ==
    IF f.elapsed < f.timeout
    THEN Cfg("o_wait", l, [f EXCEPT !.limit = Min(WAIT_SLICE, f.timeout - f.elapsed)], m, c, NoResult)
    ELSE OpenBankFinal(w, l, f, m, c)

\* Lines 819-830: the snapshot read after the wait.  f.clickedAt is the tick of
\* the snapshot the last dialog click was decided on (history; 0: none yet).
OpenBankRead(w, l, f, m, c) ==
    IF w.synced /\ w.iface
    THEN Cfg("done", l, f, m, c, Result(TRUE, "Bank opened", "none"))
    ELSE IF w.synced /\ w.dialog.isOpen
         THEN Cfg("o_click_ack", l, [f EXCEPT !.clickedAt = w.tick], m,
                  Append(c, ClickDialogCmd(ClickIndex(w.dialog), w.dialog)), NoResult)
         ELSE OpenBankLoop(w, l, f, m, c)

\* The banker is interacted with whatever options it has.
OpenBankInteractAny(w, l, f, m, c) ==
    LET banker == IF w.synced THEN w.banker ELSE "none"
        booth == IF w.synced THEN w.booth ELSE "none"
    IN  IF banker # "none"
        THEN Cfg("o_ack", l, f, m, Append(c, InteractNpcCmd(1, 2)), NoResult)
        ELSE IF booth \in {"bank", "use"}
             THEN Cfg("o_ack", l, f, m, Append(c, InteractLocCmd(2213, IF booth = "bank" THEN 2 ELSE 1)),
                      NoResult)
             ELSE Cfg("done", l, f, m, c,
                      Result(FALSE, "No banker NPC or bank booth found nearby", "no_bank_found"))

\* Lines 784-808: the banker, or else the booth, is interacted with.
OpenBankInteract(w, l, f, m, c) ==
    LET banker == IF w.synced THEN w.banker ELSE "none"
        booth == IF w.synced THEN w.booth ELSE "none"
    IN  IF banker = "bank"
        THEN Cfg("o_ack", l, f, m, Append(c, InteractNpcCmd(1, 2)), NoResult)
        ELSE IF booth \in {"bank", "use"}
             THEN Cfg("o_ack", l, f, m, Append(c, InteractLocCmd(2213, IF booth = "bank" THEN 2 ELSE 1)),
                      NoResult)
             ELSE Cfg("done", l, f, m, c,
                      Result(FALSE, "No banker NPC or bank booth found nearby", "no_bank_found"))

\* dismissBlockingUI returns to its caller.
DismissReturn(w, l, f, m, c) ==
    IF m.ret = "openBank" THEN OpenBankInteract(w, l, f, NoFrame, c)
    ELSE IF m.ret = "chopTree" THEN ChopCall(w, l, c)
    ELSE IF m.ret = "burnLogs" THEN BurnCall(w, l, c)
    ELSE Cfg("done", l, f, NoFrame, c, Void)

\* The loop of dismissBlockingUI with one attempt more.
DismissLoopEleven(w, l, f, m, c) ==
    IF m.i < MAX_ATTEMPTS + 1 /\ w.synced /\ w.dialog.isOpen
    THEN Cfg("u_ack", l, f, m, Append(c, ClickDialogCmd(0, w.dialog)), NoResult)
    ELSE DismissReturn(w, l, f, m, c)

\* Lines 118-130: a turn of the loop of dismissBlockingUI.
DismissLoop(w, l, f, m, c) ==
    IF m.i < MAX_ATTEMPTS /\ w.synced /\ w.dialog.isOpen
    THEN Cfg("u_ack", l, f, m, Append(c, ClickDialogCmd(0, w.dialog)), NoResult)
    ELSE DismissReturn(w, l, f, m, c)

DismissCall(w, l, f, c, ret) == DismissLoop(w, l, f, [ret |-> ret, i |-> 0], c)

\* Lines 777-782.
OpenBankCall(w, l, c) ==
    IF w.synced /\ w.iface
    THEN Cfg("done", l, NoFrame, NoFrame, c, Result(TRUE, "Bank already open", "none"))
    ELSE DismissCall(w, l, [ret |-> "top", timeout |-> l.timeout, elapsed |-> 0, limit |-> 0,
                                clickedAt |-> 0], c,
                     "openBank")

UiWorld(synced, iface, dialog, banker, booth) ==
    [synced |-> synced, iface |-> iface, dialog |-> dialog, banker |-> banker, booth |-> booth,
     tick |-> 1]

Dialogs == {NoDialog, PlainDialog, ChoiceDialog}
BankTimeouts == {2400}

\* What is near: a banker (with a Bank option, or to talk to only) and a booth
\* (with a Bank option, or to use only).
BankersAndBooths ==
    {<<"none", "none">>, <<"bank", "bank">>, <<"talk", "use">>, <<"none", "bank">>, <<"talk", "none">>}

\* The snapshot source replaces the snapshot: the snapshot goes or comes back,
\* the interface opens or closes, or a dialog does.
EnvUi ==
    /\ pc \in {"u_ack", "u_change", "o_ack", "o_wait", "o_read", "o_click_ack", "o_sleep"}
    /\ polled
    /\ budget > 0
    /\ budget' = budget - 1
    /\ polled' = FALSE
    /\ \/ world' = [world EXCEPT !.synced = ~@]
       \/ world' = [world EXCEPT !.iface = ~@]
       \/ \E dialog \in Dialogs \ {world.dialog} : world' = [world EXCEPT !.dialog = dialog]
    /\ UNCHANGED <<pc, loc, wf, mf, cmds, result, seen>>

DismissBlockingUI_Call ==
    /\ pc = "call" /\ loc.op = "dismissBlockingUI"
    /\ Apply(DismissCall(world, loc, NoFrame, cmds, "top"))
    /\ NoRead /\ UNCHANGED <<world, budget>>

\* sendClickDialog(0) answered: waitForStateChange starts (lines 124-125).
DismissBlockingUI_Ack ==
    /\ pc = "u_ack"
    /\ Apply(Cfg("u_change", loc, wf, mf, cmds, NoResult))
    /\ NoRead /\ UNCHANGED <<world, budget>>

\* waitForStateChange is over, by a change or by its timeout: the next turn.
DismissBlockingUI_Next ==
    /\ pc = "u_change"
    /\ Apply(DismissLoop(world, loc, wf, [mf EXCEPT !.i = @ + 1], cmds))
    /\ NoRead /\ UNCHANGED <<world, budget>>

OpenBank_Call ==
    /\ pc = "call" /\ loc.op = "openBank"
    /\ Apply(OpenBankCall(world, loc, cmds))
    /\ NoRead /\ UNCHANGED <<world, budget>>

\* The interaction was answered: startTime is taken (line 810).
OpenBank_Ack ==
    /\ pc = "o_ack"
    /\ Apply(OpenBankLoop(world, loc, wf, mf, cmds))
    /\ NoRead /\ UNCHANGED <<world, budget>>

\* waitForCondition evaluates the predicate on the snapshot (lines 814-817);
\* it is satisfied at once or at the end of its time.
OpenBank_Poll ==
    /\ pc = "o_wait" /\ ~polled
    /\ IF world.synced /\ (world.iface \/ world.dialog.isOpen)
       THEN \E spent \in {0, wf.limit - 1} :
               Apply(Cfg("o_read", loc, [wf EXCEPT !.elapsed = @ + spent], mf, cmds, NoResult))
       ELSE polled' = TRUE /\ UNCHANGED <<pc, loc, wf, mf, cmds, result>>
    /\ NoRead /\ UNCHANGED <<world, budget>>

\* waitForCondition returned: lines 819-830.
OpenBank_Read ==
    /\ pc = "o_read"
    /\ Apply(OpenBankRead(world, loc, wf, mf, cmds))
    /\ NoRead /\ UNCHANGED <<world, budget>>

\* waitForCondition gave up after its time (line 831): the loop goes on.
OpenBank_Timeout ==
    /\ pc = "o_wait" /\ polled
    /\ Apply(OpenBankLoop(world, loc, [wf EXCEPT !.elapsed = @ + wf.limit], mf, cmds))
    /\ NoRead /\ UNCHANGED <<world, budget>>

\* sendClickDialog answered: the pause of 300 ms starts (line 828).
OpenBank_ClickAck ==
    /\ pc = "o_click_ack"
    /\ Apply(Cfg("o_sleep", loc, wf, mf, cmds, NoResult))
    /\ NoRead /\ UNCHANGED <<world, budget>>

\* The pause is over (line 829).
OpenBank_Slept ==
    /\ pc = "o_sleep"
    /\ Apply(OpenBankLoop(world, loc, [wf EXCEPT !.elapsed = @ + CLICK_PAUSE], mf, cmds))
    /\ NoRead /\ UNCHANGED <<world, budget>>

InitBank ==
    /\ world \in {UiWorld(synced, iface, dialog, near[1], near[2]) :
                     synced \in BOOLEAN, iface \in BOOLEAN, dialog \in Dialogs, near \in BankersAndBooths}
    /\ loc \in {[op |-> "openBank", timeout |-> t, w0 |-> world] : t \in BankTimeouts}
               \cup {[op |-> "dismissBlockingUI", w0 |-> world]}
    /\ seen = <<0, 0>>
    /\ pc = "call"
    /\ wf = NoFrame /\ mf = NoFrame
    /\ polled = TRUE
    /\ cmds = <<>>
    /\ result = NoResult
    /\ budget = MaxBankSteps

NextBank ==
    \/ DismissBlockingUI_Call
    \/ DismissBlockingUI_Ack
    \/ DismissBlockingUI_Next
    \/ OpenBank_Call
    \/ OpenBank_Ack
    \/ OpenBank_Poll
    \/ OpenBank_Read
    \/ OpenBank_Timeout
    \/ OpenBank_ClickAck
    \/ OpenBank_Slept
    \/ EnvUi

SpecBank == InitBank /\ [][NextBank]_vars

\* The dialog clicks of openBank's own loop: those after the interaction.
IsInteract(e) == e.c \in {"interactNpc", "interactLoc"}
Interacted == loc.op = "openBank" /\ \E i \in DOMAIN cmds : IsInteract(cmds[i])

\* C6: once openBank has interacted with the banker or the booth, a snapshot it
\* reads after a wait that shows a dialog and no interface makes it send one
\* dialog click, for the first option of that dialog (0 when the dialog lists
\* none), and go on waiting; it returns success as soon as it reads a snapshot
\* with the interface open, and it returns the timeout failure only when the
\* overall timeout has passed and the interface is still not open.
C6_DialogAdvancedThenOpen ==
    Interacted =>
        /\ \A i \in DOMAIN cmds :
              (cmds[i].c = "clickDialog" /\ \E j \in 1..(i - 1) : IsInteract(cmds[j])) =>
                  /\ cmds[i].on.isOpen
                  /\ cmds[i].index =
                        (IF cmds[i].on.options = <<>> THEN 0 ELSE Head(cmds[i].on.options).index)
        /\ pc \in {"o_click_ack", "o_sleep"} =>
              /\ Last(cmds).c = "clickDialog"
              /\ result = NoResult
        /\ pc = "done" =>
              /\ Returned(result)
              /\ result.success <=> (world.synced /\ world.iface)
              /\ ~result.success => (result.reason = "timeout" /\ wf.elapsed >= wf.timeout)
        /\ Len(SelectSeq(cmds, IsInteract)) = 1

\* The interaction opened a dialog with choices, openBank clicked its first
\* option, the interface opened and openBank returned success.
C6_Witness ==
    /\ loc.op = "openBank" /\ pc = "done" /\ result.success
    /\ Len(cmds) = 2
    /\ wf.elapsed < wf.timeout
    /\ IsInteract(cmds[1])
    /\ cmds[2] = ClickDialogCmd(1, ChoiceDialog)

----------------------------------------------------------------------------
(* The condition helpers: waitForSkillLevel, waitForInventoryItem,         *)
(* waitForDialogClose and waitForIdle.  None of them catches what          *)
(* waitForCondition or waitForStateChange throws.                          *)

\* What an operation that threw leaves to its caller.
Thrown(error) == [kind |-> "threw", error |-> error]

\* A value that is not an ActionResult.
Value(v) == [kind |-> "returned", value |-> v]

\* Lines 1160-1163, 1171-1174, 1180 and 1194-1197: the predicates.
Awaited(s, l) ==
    CASE l.op = "waitForSkillLevel" -> s.baseLevel >= l.targetLevel
      [] l.op = "waitForInventoryItem" -> FindItem(s.inv, l.pattern).found
      [] l.op = "waitForDialogClose" -> ~s.dialog.isOpen
      [] l.op = "waitForIdle" ->
           s.player.present /\ s.player.x = l.initialX /\ s.player.z = l.initialZ

\* Lines 1165 and 1176: what the helper returns from the snapshot of the wait.
Answer(s, l) ==
    CASE l.op = "waitForSkillLevel" -> Value(s.baseLevel)
      [] l.op = "waitForInventoryItem" -> Value(FindItem(s.inv, l.pattern).it)
      [] OTHER -> Void

\* Lines 1184-1192: waitForIdle up to its waitForStateChange.
WaitForIdleCall(w, l, c) ==
    IF ~HasPlayer(w) THEN Cfg("done", l, NoFrame, NoFrame, c, Thrown("No player state"))
    ELSE Cfg("i_change", [l EXCEPT !.initialX = w.player.x, !.initialZ = w.player.z],
             NoFrame, NoFrame, c, NoResult)

----------------------------------------------------------------------------
(* The world of the verified actions and of the condition helpers.         *)

Tree == Loc(5, 5, 1276, "Tree", 1, <<Option("Chop", 1)>>)
\* The door stands at the goal of the walks.
ClosedDoor(distance) == Loc(Goal[1], Goal[2], 1530, "Door", distance, <<Option("Open", 1)>>)
OpenedDoor(distance) == Loc(Goal[1], Goal[2], 1531, "Door", distance, <<Option("Close", 1)>>)
Gate == Loc(Goal[1], Goal[2], 1533, "Gate", 1, <<Option("Knock", 1), Option("Open", 2)>>)

TinderboxItem == Item(0, 590, "Tinderbox", <<Option("Drop", 5)>>)
LogsItem == Item(1, 1511, "Logs", <<Option("Drop", 5)>>)
ShrimpsItem == Item(2, 315, "Shrimps", <<Option("Eat", 1), Option("Drop", 5)>>)
SwordItem == Item(3, 1277, "Sword", <<Option("Wield", 2), Option("Drop", 5)>>)
CoinsOnGround == GroundItem(3, 5, 995, "Coins")

ActWorld(synced, player, dialog, locs, inv) ==
    [synced |-> synced, tick |-> 3, msgs |-> <<>>, player |-> player,
     npcs |-> <<Man, Goblin(5)>>, locs |-> locs, ground |-> <<CoinsOnGround>>,
     inv |-> inv, equip |-> <<SwordItem>>, dialog |-> dialog,
     fm |-> 0, hp |-> 10, magic |-> 0, baseLevel |-> 1]

ActWorlds ==
    {ActWorld(synced, Pos(p[1], p[2]), dialog, locs, inv) :
        synced \in BOOLEAN, p \in {<<3, 4>>, <<30, 40>>}, dialog \in {NoDialog, PlainDialog},
        locs \in {<<>>, <<Tree, ClosedDoor(1)>>, <<Tree, ClosedDoor(5)>>, <<OpenedDoor(1)>>},
        inv \in {<<>>, <<TinderboxItem, LogsItem, ShrimpsItem, SwordItem>>}}

Handle(it) == [handle |-> TRUE, it |-> it]
Pattern(pattern) == [handle |-> FALSE, pattern |-> pattern]

\* The calls: the operation and its arguments (a missing target of chopTree and
\* openDoor is the default pattern).
ActArgs(w) ==
    {a \in WalkArgs(w) : a.tolerance = 3}
    \cup {[op |-> "attackNpc", target |-> t, w0 |-> w] : t \in AttackTargets}
    \cup {[op |-> "talkTo", target |-> t] : t \in AttackTargets}
    \cup {[op |-> "castSpellOnNpc", target |-> t, spell |-> 1152] : t \in AttackTargets}
    \cup {[op |-> "pickupItem", target |-> t] :
            t \in {Handle(CoinsOnGround), Pattern("coins"), Pattern("logs")}}
    \cup {[op |-> "chopTree", target |-> [handle |-> FALSE, names |-> {"tree"}]]}
    \cup {[op |-> "burnLogs", target |-> t] : t \in {Handle(LogsItem), Pattern("logs")}}
    \cup {[op |-> "equipItem", target |-> t] : t \in {Handle(SwordItem), Pattern("logs")}}
    \cup {[op |-> "unequipItem", target |-> t] : t \in {Handle(SwordItem), Pattern("sword")}}
    \cup {[op |-> "eatFood", target |-> t] : t \in {Handle(ShrimpsItem), Pattern("sword")}}
    \cup {[op |-> "openDoor", target |-> t, door |-> ClosedDoor(5), far |-> FALSE,
            after |-> [returned |-> FALSE]] :
            t \in {Handle(ClosedDoor(5)), [handle |-> FALSE, names |-> {"door", "gate"}]}}
    \cup {[op |-> "waitForSkillLevel", targetLevel |-> 2]}
    \cup {[op |-> "waitForInventoryItem", pattern |-> "logs"]}
    \cup {[op |-> "waitForDialogClose"]}
    \cup {[op |-> "waitForIdle", initialX |-> 0, initialZ |-> 0]}

\* The messages that can follow the command of an operation.
TextsOf(op) ==
    CASE op = "attackNpc" -> AttackTexts
      [] op = "pickupItem" -> {TextReach, TextInventoryFull, TextWelcome}
      [] op = "burnLogs" -> {TextCantLight, TextWelcome}
      [] op = "castSpellOnNpc" -> {TextCannotReach, TextNoRunes}
      [] op = "openDoor" -> {TextReach}
      [] OTHER -> {}

Aspect(applies, changes) == IF applies THEN changes ELSE {}

\* The snapshots that can replace w while the operation is suspended: the
\* session loses or regains its snapshot, a message arrives with the next
\* tick, or one thing the operation looks at has changed.
Changes(w, op) ==
    {[w EXCEPT !.synced = ~@]}
    \cup {[w EXCEPT !.tick = @ + 1, !.msgs = Append(@, Message(t, w.tick + 1))] : t \in TextsOf(op)}
    \cup Aspect(op \in {"talkTo", "waitForDialogClose", "chopTree", "burnLogs"},
                {[w EXCEPT !.dialog = IF @.isOpen THEN NoDialog ELSE PlainDialog]})
    \cup Aspect(op \in {"chopTree", "pickupItem", "unequipItem", "waitForInventoryItem"},
                {[w EXCEPT !.inv = Append(@, Item(Len(@), 1511, "Logs", <<Option("Drop", 5)>>))]})
    \cup Aspect(op \in {"equipItem", "eatFood"},
                {[w EXCEPT !.inv = SelectSeq(@, LAMBDA i : i.name # n)] : n \in {"Sword", "Shrimps"}})
    \cup Aspect(op = "eatFood", {[w EXCEPT !.hp = @ + 1]})
    \cup Aspect(op = "burnLogs", {[w EXCEPT !.fm = @ + 40]})
    \cup Aspect(op = "castSpellOnNpc", {[w EXCEPT !.magic = @ + 10]})
    \cup Aspect(op = "waitForSkillLevel", {[w EXCEPT !.baseLevel = @ + 1]})
    \cup Aspect(op = "chopTree", {[w EXCEPT !.locs = SelectSeq(@, LAMBDA o : o.name # "Tree")]})
    \cup Aspect(op = "openDoor",
                {[w EXCEPT !.locs = locs] : locs \in {<<Tree>>, <<Tree, OpenedDoor(1)>>,
                                                      <<Tree, ClosedDoor(1)>>, <<Tree, Gate>>}})
    \cup Aspect(op \in {"walkTo", "openDoor", "waitForIdle"},
                {[w EXCEPT !.player = Pos(p[1], p[2])] : p \in Positions})
    \cup Aspect(op = "waitForIdle", {[w EXCEPT !.tick = @ + 1]})
    \cup Aspect(op = "attackNpc", {[w EXCEPT !.npcs = npcs] : npcs \in {<<>>, <<Man, Goblin(1)>>}})

\* The awaits after which the code reads the snapshot before it awaits again.
ActReadPcs ==
    WalkReadPcs \cup {"a_wait", "u_change", "v_wait", "v_read", "h_wait", "i_change"}

\* The snapshot source replaces the snapshot.
EnvAct ==
    /\ \/ pc \in ActReadPcs
       \/ pc = "v_ack" /\ wf.op \in TickAfterSend
    /\ polled
    /\ budget > 0
    /\ budget' = budget - 1
    /\ polled' = FALSE
    /\ \E w \in Changes(world, loc.op) : w # world /\ world' = w
    /\ UNCHANGED <<pc, loc, wf, mf, cmds, result, seen>>

----------------------------------------------------------------------------
(* The actions of the verified actions and of the condition helpers.       *)

TalkTo_Call ==
    /\ pc = "call" /\ loc.op = "talkTo"
    /\ Apply(TalkCall(world, loc, cmds))
    /\ NoRead /\ UNCHANGED <<world, budget>>

PickupItem_Call ==
    /\ pc = "call" /\ loc.op = "pickupItem"
    /\ Apply(PickupCall(world, loc, cmds))
    /\ NoRead /\ UNCHANGED <<world, budget>>

\* Line 236: chopTree begins with dismissBlockingUI.
ChopTree_Call ==
    /\ pc = "call" /\ loc.op = "chopTree"
    /\ Apply(DismissCall(world, loc, NoFrame, cmds, "chopTree"))
    /\ NoRead /\ UNCHANGED <<world, budget>>

\* Line 267: burnLogs begins with dismissBlockingUI.
BurnLogs_Call ==
    /\ pc = "call" /\ loc.op = "burnLogs"
    /\ Apply(DismissCall(world, loc, NoFrame, cmds, "burnLogs"))
    /\ NoRead /\ UNCHANGED <<world, budget>>

EquipItem_Call ==
    /\ pc = "call" /\ loc.op = "equipItem"
    /\ Apply(EquipCall(world, loc, cmds))
    /\ NoRead /\ UNCHANGED <<world, budget>>

UnequipItem_Call ==
    /\ pc = "call" /\ loc.op = "unequipItem"
    /\ Apply(UnequipCall(world, loc, cmds))
    /\ NoRead /\ UNCHANGED <<world, budget>>

EatFood_Call ==
    /\ pc = "call" /\ loc.op = "eatFood"
    /\ Apply(EatCall(world, loc, cmds))
    /\ NoRead /\ UNCHANGED <<world, budget>>

CastSpellOnNpc_Call ==
    /\ pc = "call" /\ loc.op = "castSpellOnNpc"
    /\ Apply(CastCall(world, loc, cmds))
    /\ NoRead /\ UNCHANGED <<world, budget>>

OpenDoor_Call ==
    /\ pc = "call" /\ loc.op = "openDoor"
    /\ Apply(OpenDoorCall(world, loc, cmds))
    /\ Reads /\ UNCHANGED <<world, budget>>

\* walkTo returned to openDoor (line 151).
OpenDoor_Walked ==
    /\ pc = "r_walked"
    /\ Apply(OpenDoorWalked(world, loc, cmds, wf.walkResult))
    /\ NoRead /\ UNCHANGED <<world, budget>>

\* The command of a verified action was answered: the action returns what a
\* failed send answered, or reads the tick (lines 180 and 286) and starts
\* to wait.
Verify_Ack ==
    /\ pc = "v_ack"
    /\ \E success \in BOOLEAN :
         IF ~success /\ wf.op \notin AnswerIgnored
         THEN Apply(Cfg("done", loc, wf, NoFrame, cmds, Result(FALSE, "not sent", "none")))
         ELSE Apply(Cfg("v_wait", loc,
                        [wf EXCEPT !.startTick =
                            IF wf.op \in TickAfterSend THEN TickOrZero(world) ELSE @],
                        NoFrame, cmds, NoResult))
    /\ NoRead /\ UNCHANGED <<world, budget>>

\* (mutant) the predicate clicks whenever a dialog is open.
BurnClicksNoCooldown(s, f) ==
    /\ f.op = "burnLogs"
    /\ ~(s.fm > f.base)
    /\ s.dialog.isOpen

\* Lines 296-299: the predicate of burnLogs clicks through a dialog, at most
\* once in three ticks, when the experience has not grown.
BurnClicks(s, f) ==
    /\ f.op = "burnLogs"
    /\ ~(s.fm > f.base)
    /\ s.dialog.isOpen
    /\ s.tick - f.lastClick >= 3

\* waitForCondition evaluates the predicate of the action on the snapshot.
Verify_Poll ==
    /\ pc = "v_wait" /\ ~polled
    /\ LET clicks == world.synced /\ BurnClicks(world, wf)
           f == IF clicks THEN [wf EXCEPT !.lastClick = world.tick] ELSE wf
           c == IF clicks THEN Append(cmds, ClickDialogCmd(0, world.dialog)) ELSE cmds
       IN  IF world.synced /\ Effect(world, wf)
           THEN IF wf.op \in ReadAfterWait
                THEN Apply(Cfg("v_read", loc, [f EXCEPT !.ended = "effect"], NoFrame, c, NoResult))
                ELSE Apply(Cfg("done", loc, [f EXCEPT !.ended = "effect"], NoFrame, c,
                               Verdict(world, wf)))
           ELSE /\ polled' = TRUE /\ wf' = f /\ cmds' = c
                /\ UNCHANGED <<pc, loc, mf, result>>
    /\ NoRead /\ UNCHANGED <<world, budget>>

\* The wait has returned: the action reads the snapshot (lines 204 and 314).
Verify_Read ==
    /\ pc = "v_read"
    /\ Apply(Cfg("done", loc, wf, NoFrame, cmds, Verdict(world, wf)))
    /\ NoRead /\ UNCHANGED <<world, budget>>

\* waitForCondition gives up: the catch clause of the action.
Verify_Timeout ==
    /\ pc = "v_wait" /\ polled
    /\ Apply(Cfg("done", loc, [wf EXCEPT !.ended = "timeout"], NoFrame, cmds, Caught(wf)))
    /\ NoRead /\ UNCHANGED <<world, budget>>

WaitForSkillLevel_Call ==
    /\ pc = "call" /\ loc.op = "waitForSkillLevel"
    /\ Apply(Cfg("h_wait", loc, NoFrame, NoFrame, cmds, NoResult))
    /\ NoRead /\ UNCHANGED <<world, budget>>

WaitForInventoryItem_Call ==
    /\ pc = "call" /\ loc.op = "waitForInventoryItem"
    /\ Apply(Cfg("h_wait", loc, NoFrame, NoFrame, cmds, NoResult))
    /\ NoRead /\ UNCHANGED <<world, budget>>

WaitForDialogClose_Call ==
    /\ pc = "call" /\ loc.op = "waitForDialogClose"
    /\ Apply(Cfg("h_wait", loc, NoFrame, NoFrame, cmds, NoResult))
    /\ NoRead /\ UNCHANGED <<world, budget>>

WaitForIdle_Call ==
    /\ pc = "call" /\ loc.op = "waitForIdle"
    /\ Apply(WaitForIdleCall(world, loc, cmds))
    /\ Reads /\ UNCHANGED <<world, budget>>

\* waitForStateChange returned (line 1192): waitForCondition starts.
WaitForIdle_Changed ==
    /\ pc = "i_change" /\ ~polled
    /\ Apply(Cfg("h_wait", loc, NoFrame, NoFrame, cmds, NoResult))
    /\ NoRead /\ UNCHANGED <<world, budget>>

\* waitForStateChange saw no change in its time, and throws.
WaitForIdle_Unchanged ==
    /\ pc = "i_change" /\ polled
    /\ Apply(Cfg("done", loc, NoFrame, NoFrame, cmds, Thrown("StateChangeTimeout")))
    /\ NoRead /\ UNCHANGED <<world, budget>>

\* waitForCondition evaluates the predicate of the helper on the snapshot.
Helper_Poll ==
    /\ pc = "h_wait" /\ ~polled
    /\ IF world.synced /\ Awaited(world, loc)
       THEN Apply(Cfg("done", loc, NoFrame, NoFrame, cmds, Answer(world, loc)))
       ELSE polled' = TRUE /\ UNCHANGED <<pc, loc, wf, mf, cmds, result>>
    /\ NoRead /\ UNCHANGED <<world, budget>>

\* waitForCondition gives up and throws; the helper does not catch it.
Helper_Timeout ==
    /\ pc = "h_wait" /\ polled
    /\ Apply(Cfg("done", loc, NoFrame, NoFrame, cmds, Thrown("ConditionTimeout")))
    /\ NoRead /\ UNCHANGED <<world, budget>>

\* What an operation never looks at is the same in all its initial snapshots.
Looks(op, w) ==
    /\ op \notin {"walkTo", "openDoor", "waitForIdle"} => w.player = Pos(3, 4)
    /\ op \notin {"openDoor", "chopTree"} => w.locs = <<>>
    /\ op \in {"walkTo", "openDoor", "waitForIdle", "attackNpc", "castSpellOnNpc",
               "waitForSkillLevel"}
          => w.dialog = NoDialog /\ w.inv = <<>>

InitActions ==
    /\ world \in ActWorlds
    /\ loc \in ActArgs(world)
    /\ Looks(loc.op, world)
    /\ seen = <<0, 0>>
    /\ pc = "call"
    /\ wf = NoFrame /\ mf = NoFrame
    /\ polled = TRUE
    /\ cmds = <<>>
    /\ result = NoResult
    /\ budget = MaxActionSteps

NextActions ==
    \/ WalkTo_Call
    \/ WalkTo_PathResult
    \/ WalkTo_MidResult
    \/ WalkTo_DirectAck
    \/ WalkTo_DirectPoll
    \/ WalkTo_DirectTimeout
    \/ WalkTo_StrideAck
    \/ WalkTo_LastAck
    \/ Wmc_Poll
    \/ AttackNpc_Call
    \/ AttackNpc_Ack
    \/ AttackNpc_Poll
    \/ AttackNpc_Timeout
    \/ DismissBlockingUI_Ack
    \/ DismissBlockingUI_Next
    \/ TalkTo_Call
    \/ PickupItem_Call
    \/ ChopTree_Call
    \/ BurnLogs_Call
    \/ EquipItem_Call
    \/ UnequipItem_Call
    \/ EatFood_Call
    \/ CastSpellOnNpc_Call
    \/ OpenDoor_Call
    \/ OpenDoor_Walked
    \/ Verify_Ack
    \/ Verify_Poll
    \/ Verify_Read
    \/ Verify_Timeout
    \/ WaitForSkillLevel_Call
    \/ WaitForInventoryItem_Call
    \/ WaitForDialogClose_Call
    \/ WaitForIdle_Call
    \/ WaitForIdle_Changed
    \/ WaitForIdle_Unchanged
    \/ Helper_Poll
    \/ Helper_Timeout
    \/ EnvAct

SpecActions == InitActions /\ [][NextActions]_vars

----------------------------------------------------------------------------
(* Properties of the results.                                               *)

\* The wait of a verified action for its effect times out.
WaitTimesOut == Verify_Timeout \/ AttackNpc_Timeout

\* C9 as stated: when the wait of a verified action for its effect times out,
\* the action returns a result with success = false and reason 'timeout', and
\* does not throw.
C9_TimeoutReturnsTimeout ==
    [][WaitTimesOut =>
          /\ Returned(result')
          /\ ~result'.success
          /\ result'.reason = "timeout"]_vars

\* C10 as stated: every public operation returns a structured result, a
\* failure carries a reason of the closed taxonomy, and no operation throws
\* for a missing player state or a wait that timed out.
C10_FailureHasTaxonomyReason ==
    LET taxonomy == {"target_not_found", "no_option", "out_of_reach", "cant_reach",
                     "already_in_combat", "already_open", "inventory_full", "timeout",
                     "rejected", "walk_failed", "stuck"}
    IN  pc = "done" =>
           /\ Returned(result)
           /\ "success" \in DOMAIN result
           /\ ~result.success => result.reason \in taxonomy

----------------------------------------------------------------------------
(* One command at a time.                                                   *)

\* C11 as stated: while the verification wait of a command is outstanding (the
\* wait goes on after the step), the layer issues no further command, the
\* dialog clicks of the wait predicate of burnLogs included.
C11_NoCommandWhileWaiting ==
    [][(pc \in WaitPcs /\ pc' = pc) => cmds' = cmds]_vars

----------------------------------------------------------------------------
(* closeBank(timeout) and closeShop(timeout), called twice in a row.       *)

MaxCloseSteps == 2

CloseWorld(synced, iface, shop) == [synced |-> synced, iface |-> iface, shop |-> shop]

\* sendCloseModal() of closeBank, sendCloseShop() of closeShop.
CloseCmd(op) == [c |-> IF op = "closeBank" THEN "closeModal" ELSE "closeShop"]

\* (mutant) a missing snapshot does not count as closed.
AlreadyClosedInSnapshot(w, op) ==
    IF op = "closeBank" THEN w.synced /\ ~w.iface
    ELSE w.synced /\ ~w.shop /\ ~w.iface

\* Lines 846 and 534: !state?.interface?.isOpen, and for closeShop
\* !state?.shop.isOpen && !state?.interface?.isOpen.
AlreadyClosed(w, op) ==
    IF op = "closeBank" THEN ~(w.synced /\ w.iface)
    ELSE ~(w.synced /\ w.shop) /\ ~(w.synced /\ w.iface)

\* Lines 853 and 540-544: the predicates of the waits, on a snapshot s.
ShownClosed(s, op) ==
    IF op = "closeBank" THEN ~s.iface ELSE ~s.shop /\ ~s.iface

\* Lines 859-864 and 550-560: the snapshot read after the second attempt.
CloseFinal(w, l, c) ==
    Cfg("done", l, NoFrame, NoFrame, c,
        IF (IF l.op = "closeBank" THEN ~(w.synced /\ w.iface)
            ELSE ~(w.synced /\ w.shop) /\ ~(w.synced /\ w.iface))
        THEN Result(TRUE, "closed (second attempt)", "none")
        ELSE Result(FALSE, "close timeout", "none"))

\* Lines 845-850 and 533-538: up to the send.
CloseCall(w, l, c) ==
    IF AlreadyClosed(w, l.op)
    THEN Cfg("done", l, NoFrame, NoFrame, c, Result(TRUE, "already closed", "none"))
    ELSE Cfg("c_ack", l, NoFrame, NoFrame, Append(c, CloseCmd(l.op)), NoResult)

\* The snapshot source replaces the snapshot: it goes or comes back, the
\* interface or the shop opens or closes.
EnvClose ==
    /\ pc \in {"c_wait", "c_sleep"}
    /\ polled
    /\ budget > 0
    /\ budget' = budget - 1
    /\ polled' = FALSE
    /\ \/ world' = [world EXCEPT !.synced = ~@]
       \/ world' = [world EXCEPT !.iface = ~@]
       \/ loc.op = "closeShop" /\ world' = [world EXCEPT !.shop = ~@]
    /\ UNCHANGED <<pc, loc, wf, mf, cmds, result, seen>>

CloseBank_Call ==
    /\ pc = "call" /\ loc.op = "closeBank"
    /\ Apply(CloseCall(world, loc, cmds))
    /\ NoRead /\ UNCHANGED <<world, budget>>

CloseShop_Call ==
    /\ pc = "call" /\ loc.op = "closeShop"
    /\ Apply(CloseCall(world, loc, cmds))
    /\ NoRead /\ UNCHANGED <<world, budget>>

\* The close command was answered: the wait starts.
Close_Ack ==
    /\ pc = "c_ack"
    /\ Apply(Cfg("c_wait", loc, wf, mf, cmds, NoResult))
    /\ NoRead /\ UNCHANGED <<world, budget>>

\* waitForCondition evaluates the predicate on the snapshot.
Close_Poll ==
    /\ pc = "c_wait" /\ ~polled
    /\ IF world.synced /\ ShownClosed(world, loc.op)
       THEN Apply(Cfg("done", loc, wf, mf, cmds, Result(TRUE, "closed", "none")))
       ELSE polled' = TRUE /\ UNCHANGED <<pc, loc, wf, mf, cmds, result>>
    /\ NoRead /\ UNCHANGED <<world, budget>>

\* waitForCondition gives up: the close command is sent again (lines 856, 549).
Close_Timeout ==
    /\ pc = "c_wait" /\ polled
    /\ Apply(Cfg("c_ack2", loc, wf, mf, Append(cmds, CloseCmd(loc.op)), NoResult))
    /\ NoRead /\ UNCHANGED <<world, budget>>

\* The second close command was answered: the pause of 500 ms starts.
Close_Ack2 ==
    /\ pc = "c_ack2"
    /\ Apply(Cfg("c_sleep", loc, wf, mf, cmds, NoResult))
    /\ NoRead /\ UNCHANGED <<world, budget>>

\* The pause is over: the final snapshot is read.
Close_Slept ==
    /\ pc = "c_sleep"
    /\ Apply(CloseFinal(world, loc, cmds))
    /\ NoRead /\ UNCHANGED <<world, budget>>

\* The caller calls the same close operation once more, at once.  loc.first
\* is what the first call returned, loc.mark the number of commands it sent
\* and loc.w1 the snapshot when it returned.
Close_Again ==
    /\ pc = "done" /\ loc.call = 1
    /\ Apply(Cfg("call", [loc EXCEPT !.call = 2, !.first = result, !.mark = Len(cmds),
                                     !.w1 = world],
                 NoFrame, NoFrame, cmds, NoResult))
    /\ NoRead /\ UNCHANGED <<world, budget>>

InitClose ==
    /\ world \in {CloseWorld(synced, iface, shop) : synced \in BOOLEAN, iface \in BOOLEAN,
                                                    shop \in BOOLEAN}
    /\ loc \in {[op |-> op, call |-> 1, first |-> NoResult, mark |-> 0, w0 |-> world,
                 w1 |-> world] : op \in {"closeBank", "closeShop"}}
    /\ seen = <<0, 0>>
    /\ pc = "call"
    /\ wf = NoFrame /\ mf = NoFrame
    /\ polled = TRUE
    /\ cmds = <<>>
    /\ result = NoResult
    /\ budget = MaxCloseSteps

NextClose ==
    \/ CloseBank_Call
    \/ CloseShop_Call
    \/ Close_Ack
    \/ Close_Poll
    \/ Close_Timeout
    \/ Close_Ack2
    \/ Close_Slept
    \/ Close_Again
    \/ EnvClose

SpecClose == InitClose /\ [][NextClose]_vars

\* C12: closeBank called with the interface closed, and closeShop called with
\* the shop and the interface closed, return success and send no command; and
\* a second call right after a call that returned success sends no command,
\* returns success and finds the snapshot the first call left.
C12_CloseIsIdempotent ==
    loc.op \in {"closeBank", "closeShop"} =>
        /\ (pc = "done" /\ loc.call = 1 /\ loc.w0.synced /\ ~loc.w0.iface
            /\ (loc.op = "closeShop" => ~loc.w0.shop))
              => (Returned(result) /\ result.success /\ cmds = <<>>)
        /\ (loc.call = 2 /\ loc.first.success)
              => /\ pc \in {"call", "done"}
                 /\ Len(cmds) = loc.mark
                 /\ world = loc.w1
                 /\ pc = "done" => (Returned(result) /\ result.success)
        /\ \A i \in DOMAIN cmds : cmds[i] = CloseCmd(loc.op)

\* The shop was open: the first closeShop sent its command and saw the shop
\* closed, the second one returned success without a command.
C12_Witness ==
    /\ loc.op = "closeShop" /\ loc.call = 2 /\ pc = "done"
    /\ loc.w0.synced /\ loc.w0.shop
    /\ loc.first.success /\ loc.mark = 1
    /\ result.success /\ Len(cmds) = 1

----------------------------------------------------------------------------
(* The tick that separates old messages from new ones.                     *)

\* C13 as stated: in the actions that classify chat messages, startTick is
\* the tick of the snapshot read immediately before the command is sent.
C13_StartTickReadBeforeSend ==
    (pc \in {"v_wait", "v_read"}
     /\ wf.op \in {"pickupItem", "castSpellOnNpc", "openDoor", "burnLogs"})
        => wf.startTick = wf.sentAt

----------------------------------------------------------------------------
(* openDoor on its own.                                                     *)

MaxDoorSteps == 1

\* The snapshots openDoor starts from; in some the door at the place is
\* another one than a handle the caller still holds.
DoorWorlds == ActWorlds \cup {[w EXCEPT !.locs = <<Tree, Gate>>] : w \in ActWorlds}

InitDoor ==
    /\ world \in DoorWorlds
    /\ loc \in {a \in ActArgs(world) : a.op = "openDoor"}
    /\ Looks(loc.op, world)
    /\ seen = <<0, 0>>
    /\ pc = "call"
    /\ wf = NoFrame /\ mf = NoFrame
    /\ polled = TRUE
    /\ cmds = <<>>
    /\ result = NoResult
    /\ budget = MaxDoorSteps

NextDoor ==
    \/ OpenDoor_Call
    \/ OpenDoor_Walked
    \/ WalkTo_PathResult
    \/ WalkTo_MidResult
    \/ WalkTo_DirectAck
    \/ WalkTo_DirectPoll
    \/ WalkTo_DirectTimeout
    \/ WalkTo_StrideAck
    \/ WalkTo_LastAck
    \/ Wmc_Poll
    \/ Verify_Ack
    \/ Verify_Poll
    \/ Verify_Read
    \/ Verify_Timeout
    \/ EnvAct

SpecDoor == InitDoor /\ [][NextDoor]_vars

\* The interact commands sent so far.
InteractsSent == {i \in DOMAIN cmds : cmds[i].c = "interactLoc"}

\* C14: openDoor on a door farther than 2 sends no interact command before
\* walkTo has returned; after a successful walk the only interact command it
\* sends carries the id and the Open option index of the door found at the same
\* coordinates in the snapshot read after the walk, and if no door is there it
\* returns success "no longer visible" without an interact command.
C14_FarDoorIsReResolved ==
    (loc.op = "openDoor" /\ loc.far) =>
        /\ ~loc.after.returned => InteractsSent = {}
        /\ Cardinality(InteractsSent) <= 1
        /\ (loc.after.returned /\ loc.after.walkResult.success) =>
             LET locs == IF loc.after.w.synced THEN loc.after.w.locs ELSE <<>>
                 here == {i \in DOMAIN locs :
                             /\ locs[i].x = loc.door.x /\ locs[i].z = loc.door.z
                             /\ ToLowerCase(<<locs[i].name>>)[1] \in {"door", "gate"}}
             IN  /\ here = {} =>
                       /\ InteractsSent = {}
                       /\ pc = "done" /\ result.kind = "returned" /\ result.success
                       /\ result.message = "is no longer visible"
                 /\ \A i \in InteractsSent :
                       /\ here # {}
                       /\ LET d == locs[CHOOSE j \in here : \A k \in here : j <= k]
                          IN  /\ cmds[i].args[1] = d.x /\ cmds[i].args[2] = d.z
                              /\ cmds[i].args[3] = d.id
                              /\ \E o \in DOMAIN d.options :
                                    /\ ToLowerCase(<<d.options[o].text>>)[1] = "open"
                                    /\ cmds[i].args[4] = d.options[o].opIndex

\* A far door was walked to and the door found there afterwards is another one
\* than the captured one: the command carries the id and option of the new one.
C14_Witness ==
    /\ loc.op = "openDoor" /\ loc.far /\ loc.after.returned
    /\ \E i \in InteractsSent :
          /\ cmds[i].args[3] = 1533 /\ cmds[i].args[4] = 2
          /\ loc.door.id = 1530

----------------------------------------------------------------------------
(* attackNpc and the distance of the NPC.                                   *)

\* C15 as stated: the attack command for an NPC resolved farther than 2 away
\* is sent only after a walk (a path query or a walk command) went out.
C15_FarNpcIsWalkedTo ==
    (loc.op = "attackNpc" /\ wf # NoFrame /\ wf.npc.distance > 2) =>
        \A i \in DOMAIN cmds :
            cmds[i].c = "interactNpc" =>
                \E j \in 1..(i - 1) : cmds[j].c \in {"findPath", "walk"}

----------------------------------------------------------------------------
(* Entity resolution.                                                       *)

\* C16 as stated, for the shop item: a target that is a resolved handle is
\* what sellToShop goes on with, unchanged and whatever the snapshot lists, so
\* the resolution of a handle never ends in "not found".
C16_HandleReturnedUnchanged ==
    (loc.op = "sellToShop" /\ loc.target.handle /\ pc # "call"
     /\ loc.w0.synced /\ loc.w0.open) =>
        IF wf = NoFrame THEN result.message # "Item not found to sell"
        ELSE wf.sellItem = loc.target.item

----------------------------------------------------------------------------
(* openShop(target).                                                        *)

MaxOpenShopSteps == 2

Shopkeeper == Npc(11, "Shopkeeper", 2, <<Option("Talk-to", 1), Option("Trade", 2)>>)

IsTradeOption(o) == ToLowerCase(<<o.text>>) = <<"trade">>

OpenShopWorld(synced, shop, dialog, npcs) ==
    [synced |-> synced, shop |-> shop, dialog |-> dialog, npcs |-> npcs]

\* openShop, lines 564-576: up to the send.  dialogSeen tells whether the wait
\* evaluated a snapshot with a dialog open and the shop closed (history).
OpenShopCall(w, l, c) ==
    LET r == ResolveNpc(w, l.target)
    IN  IF ~r.found
        THEN Cfg("done", l, NoFrame, NoFrame, c, Result(FALSE, "Shopkeeper not found", "none"))
        ELSE LET tradeOpt == FindOption(r.npc.options, IsTradeOption)
             IN  IF ~tradeOpt.found
                 THEN Cfg("done", l, NoFrame, NoFrame, c,
                          Result(FALSE, "No trade option on NPC", "none"))
                 ELSE Cfg("p_ack", l, [ret |-> "top", npc |-> r.npc, dialogSeen |-> FALSE],
                          NoFrame, Append(c, InteractNpcCmd(r.npc.index, tradeOpt.opIndex)),
                          NoResult)

\* Line 581: state => state.shop.isOpen
ShopShown(s) == s.shop

OpenShop_Call ==
    /\ pc = "call" /\ loc.op = "openShop"
    /\ Apply(OpenShopCall(world, loc, cmds))
    /\ NoRead /\ UNCHANGED <<world, budget>>

\* sendInteractNpc answered (lines 576-579).
OpenShop_Ack ==
    /\ pc = "p_ack"
    /\ \E success \in BOOLEAN :
         IF success
         THEN Apply(Cfg("p_wait", loc, wf, NoFrame, cmds, NoResult))
         ELSE Apply(Cfg("done", loc, wf, NoFrame, cmds, Result(FALSE, "not sent", "none")))
    /\ NoRead /\ UNCHANGED <<world, budget>>

\* waitForCondition evaluates the predicate on the snapshot (lines 581-582).
OpenShop_Poll ==
    /\ pc = "p_wait" /\ ~polled
    /\ IF world.synced /\ ShopShown(world)
       THEN Apply(Cfg("done", loc, wf, NoFrame, cmds, Result(TRUE, "Opened shop", "none")))
       ELSE /\ polled' = TRUE
            /\ wf' = [wf EXCEPT !.dialogSeen = @ \/ (world.synced /\ world.dialog.isOpen)]
            /\ UNCHANGED <<pc, loc, mf, cmds, result>>
    /\ NoRead /\ UNCHANGED <<world, budget>>

\* waitForCondition gives up after 10000 ms (lines 583-585).
OpenShop_Timeout ==
    /\ pc = "p_wait" /\ polled
    /\ Apply(Cfg("done", loc, wf, NoFrame, cmds,
                 Result(FALSE, "Timed out waiting for shop to open", "none")))
    /\ NoRead /\ UNCHANGED <<world, budget>>

\* The game and the snapshot source: a dialog opens or closes, the shop opens
\* or closes, the snapshot goes or comes.
EnvOpenShop ==
    /\ pc \in {"p_ack", "p_wait"}
    /\ polled
    /\ budget > 0
    /\ budget' = budget - 1
    /\ polled' = FALSE
    /\ \/ \E dialog \in {NoDialog, PlainDialog, ChoiceDialog} :
            dialog # world.dialog /\ world' = [world EXCEPT !.dialog = dialog]
       \/ world' = [world EXCEPT !.shop = ~@]
       \/ world' = [world EXCEPT !.synced = ~@]
    /\ UNCHANGED <<pc, loc, wf, mf, cmds, result, seen>>

InitOpenShop ==
    /\ \E synced \in BOOLEAN, shop \in BOOLEAN, dialog \in {NoDialog, PlainDialog},
          npcs \in {<<>>, <<Man>>, <<Man, Shopkeeper>>} :
            world = OpenShopWorld(synced, shop, dialog, npcs)
    /\ loc \in {[op |-> "openShop", target |-> t] :
                   t \in {[handle |-> TRUE, npc |-> Shopkeeper], [handle |-> TRUE, npc |-> Man],
                          [handle |-> FALSE, pattern |-> "shopkeeper"]}}
    /\ seen = <<0, 0>>
    /\ pc = "call"
    /\ wf = NoFrame /\ mf = NoFrame
    /\ polled = TRUE
    /\ cmds = <<>>
    /\ result = NoResult
    /\ budget = MaxOpenShopSteps

NextOpenShop ==
    \/ OpenShop_Call
    \/ OpenShop_Ack
    \/ OpenShop_Poll
    \/ OpenShop_Timeout
    \/ EnvOpenShop

SpecOpenShop == InitOpenShop /\ [][NextOpenShop]_vars

\* C17 as stated: when the wait of openShop has seen a dialog open before the
\* shop UI, openShop has advanced it by a dialog click by the time it returns.
C17_DialogIsAdvanced ==
    (loc.op = "openShop" /\ pc = "done" /\ wf # NoFrame /\ wf.dialogSeen) =>
        \E i \in DOMAIN cmds : cmds[i].c = "clickDialog"

----------------------------------------------------------------------------
(* The rejections of sellToShop.                                            *)

\* The outcome a result stands for, by its message.
RejectionOutcome(r) ==
    IF r.message \in {"Shop doesn't buy", "then shop stopped buying"} THEN "not_this_shop"
    ELSE IF r.message = "Cannot sell to any shop" THEN "not_any_shop"
    ELSE IF r.message = "not tradeable" THEN "not_tradeable"
    ELSE "other"

\* C18 as stated: when sellToShop (with a number or with 'all') ended on a
\* rejection message newer than startTick, its outcome is the one of three
\* that belongs to the message: not buyable by this shop, not buyable by any
\* shop, not tradeable.
C18_ThreeRejectionOutcomes ==
    (loc.op = "sellToShop" /\ pc = "done" /\ wf # NoFrame /\ result.rejected) =>
        LET text == world.msgs[FirstRejection(world, wf.startTick)].text
        IN  RejectionOutcome(result) =
                IF IsNotThisShopText(text) THEN "not_this_shop"
                ELSE IF IsNotAnyShopText(text) THEN "not_any_shop"
                ELSE "not_tradeable"

----------------------------------------------------------------------------
(* withdrawItem(bankSlot, amount).                                          *)

MaxWithdrawSteps == 2

\* A BankWithdrawResult: success, message, reason? and item? only; hasAmount
\* tells whether it carries a transferred amount.
WithdrawResult(success, message, reason, item) ==
    [kind |-> "returned", success |-> success, message |-> message, reason |-> reason,
     item |-> item, hasAmount |-> FALSE]

BankWithdrawCmd(bankSlot, amount) == [c |-> "bankWithdraw", bankSlot |-> bankSlot, amount |-> amount]

\* The item id kept in each slot of the bank.
BankSlots == <<Logs, Coins>>

\* state.inventory.find(bi => bi.slot === slot)
BySlot(inventory, slot) ==
    LET own == SelectSeq(inventory, LAMBDA i : i.slot = slot)
    IN  IF own = <<>> THEN [found |-> FALSE] ELSE [found |-> TRUE, it |-> Head(own)]

\* Lines 911-916: the predicate withdrawItem waits for, over the inventory
\* `before` of the snapshot read at the call.
Withdrawn(s, before) ==
    \/ Len(s.inv) > Len(before)
    \/ \E k \in DOMAIN s.inv :
          /\ BySlot(before, s.inv[k].slot).found
          /\ s.inv[k].count > BySlot(before, s.inv[k].slot).it.count

\* Lines 919-923: the first item of the inventory that is new or grew.
NewItem(inventory, before) ==
    LET own == SelectSeq(inventory, LAMBDA i :
                   \/ ~BySlot(before, i.slot).found
                   \/ i.count > BySlot(before, i.slot).it.count)
    IN  IF own = <<>> THEN [found |-> FALSE] ELSE [found |-> TRUE, it |-> Head(own)]

\* withdrawItem, lines 900-908: up to the send.
WithdrawCall(w, l, c) ==
    IF ~(w.synced /\ w.iface)
    THEN Cfg("done", l, NoFrame, NoFrame, c,
             WithdrawResult(FALSE, "Bank is not open", "bank_not_open", [found |-> FALSE]))
    ELSE Cfg("b_ack", l, [ret |-> "top", before |-> w.inv], NoFrame,
             Append(c, BankWithdrawCmd(l.bankSlot, l.amount)), NoResult)

WithdrawWorld(synced, iface, inv, pending) ==
    [synced |-> synced, iface |-> iface, inv |-> inv, pending |-> pending]

\* The inventory after k units of the item came in: on its stack, or in a
\* new slot.
AddUnits(inventory, id, k) ==
    IF \E i \in DOMAIN inventory : inventory[i].id = id
    THEN LET first == CHOOSE i \in DOMAIN inventory :
                          inventory[i].id = id /\ \A j \in 1..(i - 1) : inventory[j].id # id
         IN  [inventory EXCEPT ![first].count = @ + k]
    ELSE Append(inventory, Stack(Len(inventory), id, k))

WithdrawItem_Call ==
    /\ pc = "call" /\ loc.op = "withdrawItem"
    /\ LET n == WithdrawCall(world, loc, cmds)
       IN  /\ Apply(n)
           /\ world' = IF n.pc = "b_ack"
                       THEN [world EXCEPT !.pending = [any |-> TRUE, id |-> BankSlots[loc.bankSlot + 1],
                                                       amount |-> loc.amount]]
                       ELSE world
    /\ NoRead /\ UNCHANGED budget

\* sendBankWithdraw answered (line 908); the answer is not looked at.
WithdrawItem_Ack ==
    /\ pc = "b_ack"
    /\ Apply(Cfg("b_wait", loc, wf, NoFrame, cmds, NoResult))
    /\ NoRead /\ UNCHANGED <<world, budget>>

\* waitForCondition evaluates the predicate on the snapshot (lines 911-916).
WithdrawItem_Poll ==
    /\ pc = "b_wait" /\ ~polled
    /\ IF world.synced /\ Withdrawn(world, wf.before)
       THEN Apply(Cfg("b_read", loc, wf, NoFrame, cmds, NoResult))
       ELSE polled' = TRUE /\ UNCHANGED <<pc, loc, wf, mf, cmds, result>>
    /\ NoRead /\ UNCHANGED <<world, budget>>

\* Lines 918-925: the wait returned; the inventory is read again.
WithdrawItem_Read ==
    /\ pc = "b_read"
    /\ Apply(Cfg("done", [loc EXCEPT !.after = IF world.synced THEN world.inv ELSE <<>>],
                 wf, NoFrame, cmds,
                 WithdrawResult(TRUE, "Withdrew item from bank slot", "none",
                                NewItem(IF world.synced THEN world.inv ELSE <<>>, wf.before))))
    /\ NoRead /\ UNCHANGED <<world, budget>>

\* waitForCondition gives up after 5000 ms (line 926).
WithdrawItem_Timeout ==
    /\ pc = "b_wait" /\ polled
    /\ Apply(Cfg("done", loc, wf, NoFrame, cmds,
                 WithdrawResult(FALSE, "Timeout waiting for item to be withdrawn", "timeout",
                                [found |-> FALSE])))
    /\ NoRead /\ UNCHANGED <<world, budget>>

\* The bank and the snapshot source: the pending withdrawal is carried out
\* (all of it or one unit), the bank closes, or the snapshot goes or comes.
EnvWithdraw ==
    /\ pc \in {"b_ack", "b_wait", "b_read"}
    /\ polled
    /\ budget > 0
    /\ budget' = budget - 1
    /\ polled' = FALSE
    /\ \/ /\ world.pending.any
          /\ \E k \in {1, world.pending.amount} :
               world' = [world EXCEPT !.inv = AddUnits(@, world.pending.id, k),
                                      !.pending = [any |-> FALSE]]
       \/ world' = [world EXCEPT !.iface = ~@]
       \/ world' = [world EXCEPT !.synced = ~@]
    /\ UNCHANGED <<pc, loc, wf, mf, cmds, result, seen>>

InitWithdraw ==
    /\ \E synced \in BOOLEAN, iface \in BOOLEAN,
          inv \in {<<>>, <<Stack(0, Logs, 2)>>, <<Stack(0, Coins, 3), Stack(1, Logs, 2)>>} :
            world = WithdrawWorld(synced, iface, inv, [any |-> FALSE])
    /\ loc \in {[op |-> "withdrawItem", bankSlot |-> b, amount |-> a, after |-> <<>>] :
                   b \in {0, 1}, a \in {1, 5}}
    /\ seen = <<0, 0>>
    /\ pc = "call"
    /\ wf = NoFrame /\ mf = NoFrame
    /\ polled = TRUE
    /\ cmds = <<>>
    /\ result = NoResult
    /\ budget = MaxWithdrawSteps

NextWithdraw ==
    \/ WithdrawItem_Call
    \/ WithdrawItem_Ack
    \/ WithdrawItem_Poll
    \/ WithdrawItem_Read
    \/ WithdrawItem_Timeout
    \/ EnvWithdraw

SpecWithdraw == InitWithdraw /\ [][NextWithdraw]_vars

\* C19 as stated: a successful withdrawItem reports the transferred amount:
\* the units of the item in the inventory read after the command minus the
\* units before it.
C19_ReportsTransferredAmount ==
    (loc.op = "withdrawItem" /\ pc = "done" /\ result.success) =>
        /\ result.hasAmount
        /\ result.amount = TotalCount(loc.after, BankSlots[loc.bankSlot + 1])
                           - TotalCount(wf.before, BankSlots[loc.bankSlot + 1])

----------------------------------------------------------------------------
(* The commands of a verified action.                                       *)

VerifiedActions ==
    {"attackNpc", "pickupItem", "chopTree", "burnLogs", "talkTo", "equipItem", "unequipItem",
     "eatFood", "castSpellOnNpc", "openDoor"}

\* C20 as stated: a call of a verified action (openDoor: on a door within
\* range) that got past its target resolution and sent its command has sent
\* exactly one primitive command by the time it returns.
C20_OneCommandPerCall ==
    (/\ loc.op \in VerifiedActions
     /\ loc.op = "openDoor" => ~loc.far
     /\ pc = "done" /\ wf # NoFrame) =>
        Len(Commands(cmds)) = 1

----------------------------------------------------------------------------
(* The last iterations of walkTo.                                           *)

MaxLateSteps == 1

\* The iteration the late walks are taken up at: the last one.
LateQueries == {MAX_PATH_QUERIES - 1}

\* walkTo late in its loop: iteration q has just sent its path query, after
\* earlier iterations that moved the player to and fro.
InitWalkLate ==
    /\ world \in {WalkWorld(TRUE, Pos(6, 8)), WalkWorld(TRUE, Pos(30, 40))}
    /\ loc \in {a \in WalkArgs(world) : a.tolerance = 3}
    /\ \E q \in LateQueries, s \in {0, STUCK_LIMIT - 1}, start \in {<<30, 40>>} :
         LET f == [ret |-> "top", x |-> loc.x, z |-> loc.z, tolerance |-> loc.tolerance,
                   startX |-> start[1], startZ |-> start[2],
                   query |-> q, stuckCount |-> s,
                   currentX |-> 0, currentZ |-> 0, distD2 |-> 0,
                   waypoints |-> <<>>, wpIndex |-> 0, cands |-> <<>>, hist |-> <<>>,
              answered |-> <<>>]
             n == WalkLoop(world, loc, f, <<Earlier>>)
         IN  /\ pc = n.pc /\ wf = n.wf /\ mf = n.mf /\ cmds = n.cmds /\ result = n.result
    /\ seen = <<world.player.x, world.player.z>>
    /\ polled = TRUE
    /\ budget = MaxLateSteps

\* The steps of walkTo itself.
WalkSteps ==
    \/ WalkTo_PathResult
    \/ WalkTo_MidResult
    \/ WalkTo_DirectAck
    \/ WalkTo_DirectPoll
    \/ WalkTo_DirectTimeout
    \/ WalkTo_StrideAck
    \/ WalkTo_LastAck
    \/ Wmc_Poll

NextWalkLate ==
    \/ WalkTo_PathResult
    \/ WalkTo_MidResult
    \/ WalkTo_DirectAck
    \/ WalkTo_DirectPoll
    \/ WalkTo_DirectTimeout
    \/ WalkTo_StrideAck
    \/ WalkTo_LastAck
    \/ Wmc_Poll
    \/ EnvMove

\* The primitives answer and the timers fire: a step of walkTo that stays
\* possible is taken.
SpecWalkLate == InitWalkLate /\ [][NextWalkLate]_vars /\ WF_vars(WalkSteps)

\* C21: walkTo starts no iteration beyond the 80th (the iterations are counted
\* from 0, one goal path query each), and it returns whatever snapshots come.
C21_WalkToReturns ==
    /\ [](pc # "done" => wf.query < MAX_PATH_QUERIES)
    /\ <>(pc = "done")

\* The 80th iteration ended without arriving and walkTo returned.
C21_Witness ==
    /\ pc = "done" /\ loc.op = "walkTo" /\ wf.query = MAX_PATH_QUERIES
    /\ result.kind = "returned" /\ ~result.success /\ result.message = "Could not reach"

----------------------------------------------------------------------------
(* The strides and the fallback of walkTo.                                  *)

\* C22 as stated: when the waitForMovementComplete of a stride returns
\* stoppedMoving without arrived, the statements that follow send no walk
\* command: the next command of walkTo, if any, is a path query.
C22_StoppedStrideReplans ==
    [][(/\ pc = "m_sleep" /\ mf.ret = "stride"
        /\ WmcPoll(world, mf).done
        /\ WmcPoll(world, mf).res.stoppedMoving /\ ~WmcPoll(world, mf).res.arrived
        /\ cmds' # cmds)
           => Last(cmds').c # "walk"]_vars

\* C23: the direct walk command of the fallback goes to the goal and is the
\* last command of the call: the call is then waiting for the answer or for
\* the arrival, or has returned "Arrived" (success) or "No path found"
\* (failure); and "No path found" is returned after such a command only.
C23_FallbackIsOneDirectWalk ==
    /\ \A i \in DOMAIN cmds :
          (cmds[i].c = "walk" /\ cmds[i].src = "direct") =>
              /\ i = Len(cmds)
              /\ cmds[i].x = wf.x /\ cmds[i].z = wf.z
              /\ pc \in {"w_direct_ack", "w_direct_wait", "done"}
              /\ pc = "done" =>
                    /\ result.kind = "returned"
                    /\ \/ result.success /\ result.message = "Arrived"
                       \/ ~result.success /\ result.message = "No path found"
    /\ (pc = "done" /\ result.kind = "returned" /\ result.message = "No path found") =>
          /\ cmds # <<>>
          /\ Last(cmds).c = "walk" /\ Last(cmds).src = "direct"

\* The fallback ran after a search of intermediate points and timed out.
C23_Witness ==
    /\ pc = "done" /\ result.kind = "returned" /\ result.message = "No path found"
    /\ Len(cmds) >= 3
    /\ cmds[Len(cmds) - 1].c = "findPath"
    /\ <<cmds[Len(cmds) - 1].x, cmds[Len(cmds) - 1].z>> # Goal

----------------------------------------------------------------------------
(* The loop of sellToShop(item, 'all').                                     *)

\* The ways the loop of sellAllToShop is left.
SellAllExits == {"none_left", "shop_closed", "refused", "rejected", "timeout", "no_progress"}

\* C24: sellToShop(item, 'all') sends one sell command per iteration it
\* starts; it goes from the wait of a batch to another iteration only when the
\* snapshot the wait returned shows fewer units of the item than the batch
\* started with, so it starts at most one iteration more than there were
\* units; and it returns through one of the six exits.
C24_SellAllLoopEnds ==
    /\ []((loc.op = "sellToShop" /\ loc.all /\ wf # NoFrame) =>
            /\ Len(cmds) = wf.batches
            /\ wf.batches <= UnitsOf(loc.w0.items, wf.sellItem.id) + 1
            /\ pc = "done" => wf.exit \in SellAllExits)
    /\ [][(pc = "s_wait" /\ wf.all /\ pc' = "s_loop") =>
            /\ world.synced
            /\ TotalCount(world.items, wf.sellItem.id) < wf.before]_vars

\* Two batches were sold and the loop ended because no unit was left.
C24_Witness ==
    /\ loc.op = "sellToShop" /\ loc.all /\ pc = "done" /\ wf # NoFrame
    /\ wf.batches >= 2 /\ wf.exit = "none_left" /\ Len(cmds) = 2

----------------------------------------------------------------------------
(* burnLogs on its own, over several ticks.                                 *)

MaxBurnSteps == 3

\* The game and the snapshot source while burnLogs is suspended: ticks pass
\* (one, or three at once), a failure message arrives, a dialog opens or
\* closes, the experience grows, the snapshot goes or comes.
EnvBurn ==
    /\ pc \in {"u_change", "v_ack", "v_wait", "v_read"}
    /\ polled
    /\ budget > 0
    /\ budget' = budget - 1
    /\ polled' = FALSE
    /\ \/ \E k \in {1, 3} : world' = [world EXCEPT !.tick = @ + k]
       \/ world' = [world EXCEPT !.tick = @ + 1,
                                 !.msgs = Append(@, Message(TextCantLight, world.tick + 1))]
       \/ world' = [world EXCEPT !.dialog = IF @.isOpen THEN NoDialog ELSE PlainDialog]
       \/ world' = [world EXCEPT !.fm = @ + 40]
       \/ world' = [world EXCEPT !.synced = ~@]
    /\ UNCHANGED <<pc, loc, wf, mf, cmds, result, seen>>

InitBurn ==
    /\ \E synced \in BOOLEAN, dialog \in {NoDialog, PlainDialog}, tick \in {1, 3} :
         world = [ActWorld(synced, Pos(3, 4), dialog, <<>>,
                           <<TinderboxItem, LogsItem, ShrimpsItem, SwordItem>>)
                     EXCEPT !.tick = tick]
    /\ loc \in {a \in ActArgs(world) : a.op = "burnLogs"}
    /\ seen = <<0, 0>>
    /\ pc = "call"
    /\ wf = NoFrame /\ mf = NoFrame
    /\ polled = TRUE
    /\ cmds = <<>>
    /\ result = NoResult
    /\ budget = MaxBurnSteps

NextBurn ==
    \/ BurnLogs_Call
    \/ DismissBlockingUI_Ack
    \/ DismissBlockingUI_Next
    \/ Verify_Ack
    \/ Verify_Poll
    \/ Verify_Read
    \/ Verify_Timeout
    \/ EnvBurn

SpecBurn == InitBurn /\ [][NextBurn]_vars

\* C25: while burnLogs waits for the fire, a command goes out only as a dialog
\* click of the predicate, on a snapshot in which a dialog is open, and, when
\* the predicate has clicked before, at least 3 ticks after that click.
C25_BurnClicksAreSpaced ==
    [][(pc = "v_wait" /\ wf.op = "burnLogs" /\ cmds' # cmds) =>
          /\ cmds' = Append(cmds, ClickDialogCmd(0, world.dialog))
          /\ world.synced /\ world.dialog.isOpen
          /\ wf.lastClick # 0 => world.tick - wf.lastClick >= 3
          /\ wf'.lastClick = world.tick]_vars

\* The predicate has clicked twice after the logs were lit.
C25_Witness ==
    /\ loc.op = "burnLogs" /\ wf # NoFrame
    /\ \E i, j, k \in DOMAIN cmds :
          /\ i < j /\ j < k
          /\ cmds[i].c = "useItemOnItem"
          /\ cmds[j].c = "clickDialog" /\ cmds[k].c = "clickDialog"

----------------------------------------------------------------------------
(* openBank while the ticks of the game pass.                               *)

\* A tick of the game passes: the snapshot comes with the next tick number.
EnvTick ==
    /\ pc \in {"u_ack", "u_change", "o_ack", "o_wait", "o_read", "o_click_ack", "o_sleep"}
    /\ polled
    /\ budget > 0
    /\ budget' = budget - 1
    /\ polled' = FALSE
    /\ world' = [world EXCEPT !.tick = @ + 1]
    /\ UNCHANGED <<pc, loc, wf, mf, cmds, result, seen>>

InitBankTicks ==
    /\ world \in {UiWorld(synced, FALSE, dialog, "bank", "bank") :
                     synced \in BOOLEAN, dialog \in Dialogs}
    /\ loc \in {[op |-> "openBank", timeout |-> t, w0 |-> world] : t \in BankTimeouts}
    /\ seen = <<0, 0>>
    /\ pc = "call"
    /\ wf = NoFrame /\ mf = NoFrame
    /\ polled = TRUE
    /\ cmds = <<>>
    /\ result = NoResult
    /\ budget = MaxBankSteps

NextBankTicks ==
    \/ OpenBank_Call
    \/ DismissBlockingUI_Ack
    \/ DismissBlockingUI_Next
    \/ OpenBank_Ack
    \/ OpenBank_Poll
    \/ OpenBank_Read
    \/ OpenBank_Timeout
    \/ OpenBank_ClickAck
    \/ OpenBank_Slept
    \/ EnvUi
    \/ EnvTick

SpecBankTicks == InitBankTicks /\ [][NextBankTicks]_vars

\* C26 as stated: a dialog click of the wait loop of openBank is not sent in
\* the tick in which the loop sent its last dialog click.
C26_OneBankClickPerTick ==
    [][(loc.op = "openBank" /\ pc = "o_read" /\ cmds' # cmds /\ wf.clickedAt # 0)
          => world.tick # wf.clickedAt]_vars

----------------------------------------------------------------------------
(* Failure messages and success signals.                                    *)

SaleExamined ==
    /\ loc.op = "sellToShop" /\ pc = "done" /\ wf # NoFrame
    /\ IF wf.all THEN wf.exit = "rejected" ELSE result.message # "not sent"

----------------------------------------------------------------------------
(* walkTo from far away: the intermediate search.                          *)

MaxSearchSteps == 1

\* Where these walks start: at distances 40, 60 and 100 of the goal.
SearchStarts == { <<24, 32>>, <<36, 48>>, <<60, 80>> }

InitSearch ==
    /\ world \in {WalkWorld(TRUE, Pos(p[1], p[2])) : p \in SearchStarts}
    /\ loc \in {a \in WalkArgs(world) : a.tolerance = 3}
    /\ seen = <<0, 0>>
    /\ pc = "call"
    /\ wf = NoFrame /\ mf = NoFrame
    /\ polled = TRUE
    /\ cmds = <<>>
    /\ result = NoResult
    /\ budget = MaxSearchSteps

SpecSearch == InitSearch /\ [][NextWalk]_vars

\* C28: in one iteration of walkTo the first path query asks for the goal; a
\* further query is sent only when the distance to the goal is above 40 and
\* every earlier answer of the iteration had no waypoints; the further queries
\* ask, in this order, for the points at the distances 60, 40, 25 (those below
\* the distance to the goal) and the offsets 0, 15, -15, 30, -30 of each; the
\* search goes on while the answers have no waypoints and points are left; so
\* an iteration sends at most 15 queries after the first.  The player is on
\* the ray (3, 4) of the goal (0, 0), so the unit direction is (-3/5, -4/5).
C28_IntermediateSearch ==
    (loc.op = "walkTo" /\ wf # NoFrame) =>
        LET IsFindPath(e) == e.c = "findPath"
            fp == SelectSeq(cmds, IsFindPath)
            n == Len(fp)
            a == wf.answered
            d2 == wf.currentX * wf.currentX + wf.currentZ * wf.currentZ
            all == << <<60, 0>>, <<60, 15>>, <<60, -15>>, <<60, 30>>, <<60, -30>>,
                      <<40, 0>>, <<40, 15>>, <<40, -15>>, <<40, 30>>, <<40, -30>>,
                      <<25, 0>>, <<25, 15>>, <<25, -15>>, <<25, 30>>, <<25, -30>> >>
            Below(p) == p[1] * p[1] < d2
            kept == SelectSeq(all, Below)
            point(p) ==
                FindPathCmd((10 * wf.currentX - 6 * p[1] + 8 * p[2] + 5) \div 10,
                            (10 * wf.currentZ - 8 * p[1] - 6 * p[2] + 5) \div 10)
        IN  /\ Len(a) \in {n - 1, n}
            /\ n <= 16
            /\ n >= 1 => fp[1] = FindPathCmd(wf.x, wf.z)
            /\ n >= 2 => d2 > 40 * 40
            /\ \A i \in 2..n :
                 /\ ~a[i - 1]
                 /\ i - 1 <= Len(kept)
                 /\ fp[i] = point(kept[i - 1])
            /\ (/\ Len(a) >= 1 /\ Len(a) <= Len(kept) /\ d2 > 40 * 40
                /\ \A i \in 1..Len(a) : ~a[i]) => n = Len(a) + 1

\* All fifteen points were asked for, and the last answer came.
C28_Witness ==
    /\ loc.op = "walkTo" /\ wf # NoFrame
    /\ Len(wf.answered) = 16
    /\ Len(cmds) >= 16 /\ cmds[16].c = "findPath"
    /\ cmds[16] = FindPathCmd(21, 78)

----------------------------------------------------------------------------
(* openDoor and the options of the door.                                   *)

MaxOptionSteps == 1

\* A door that can be neither opened nor closed.
LockedDoor(distance) == Loc(Goal[1], Goal[2], 1532, "Door", distance, <<Option("Knock", 1)>>)

\* The doors at the place, and those a caller holds a handle of.
InitDoorOptions ==
    /\ world \in {ActWorld(TRUE, Pos(p[1], p[2]), NoDialog, locs, <<>>) :
                    p \in {<<3, 4>>, <<30, 40>>},
                    locs \in {<<Tree, ClosedDoor(1)>>, <<Tree, ClosedDoor(5)>>, <<OpenedDoor(1)>>,
                              <<Tree, LockedDoor(1)>>, <<Tree, Gate>>}}
    /\ loc \in {[op |-> "openDoor", target |-> t, door |-> ClosedDoor(5), far |-> FALSE,
                 after |-> [returned |-> FALSE]] :
                 t \in {Handle(ClosedDoor(5)), Handle(OpenedDoor(1)), Handle(LockedDoor(1)),
                        [handle |-> FALSE, names |-> {"door", "gate"}]}}
    /\ seen = <<0, 0>>
    /\ pc = "call"
    /\ wf = NoFrame /\ mf = NoFrame
    /\ polled = TRUE
    /\ cmds = <<>>
    /\ result = NoResult
    /\ budget = MaxOptionSteps

SpecDoorOptions == InitDoorOptions /\ [][NextDoor]_vars

\* C29: every interact command of openDoor carries the index of an Open option
\* of the door it acts on (the door resolved at the call when that door is
\* within 2, the door found at the place after the walk otherwise); when that
\* door has a Close option and no Open option openDoor returns success
\* already_open, when it has neither it returns failure no_open_option, and in
\* both cases it has sent no interact command.
C29_NoCommandWithoutOpen ==
    loc.op = "openDoor" =>
        LET IsDoor(o) == ToLowerCase(<<o.name>>)[1] \in {"door", "gate"}
            Opens(d) == {o \in DOMAIN d.options : ToLowerCase(<<d.options[o].text>>)[1] = "open"}
            Closes(d) == {o \in DOMAIN d.options : ToLowerCase(<<d.options[o].text>>)[1] = "close"}
            Treated(d) ==
                /\ (Opens(d) = {} /\ Closes(d) # {}) =>
                      /\ pc = "done" /\ InteractsSent = {} /\ result.kind = "returned"
                      /\ result.success /\ result.reason = "already_open"
                /\ (Opens(d) = {} /\ Closes(d) = {}) =>
                      /\ pc = "done" /\ InteractsSent = {} /\ result.kind = "returned"
                      /\ ~result.success /\ result.reason = "no_open_option"
                /\ \A i \in InteractsSent :
                      /\ cmds[i].args[3] = d.id
                      /\ \E o \in Opens(d) : cmds[i].args[4] = d.options[o].opIndex
            locsNow == IF world.synced THEN world.locs ELSE <<>>
            named == {i \in DOMAIN locsNow : IsDoor(locsNow[i])}
            locsAfter == IF loc.after.w.synced THEN loc.after.w.locs ELSE <<>>
            here == {i \in DOMAIN locsAfter :
                        /\ locsAfter[i].x = loc.door.x /\ locsAfter[i].z = loc.door.z
                        /\ IsDoor(locsAfter[i])}
        IN  /\ (pc = "done" /\ ~loc.far /\ cmds = <<>>) =>
                  IF loc.target.handle THEN Treated(loc.target.it)
                  ELSE named # {} => Treated(locsNow[CHOOSE j \in named : \A k \in named : j <= k])
            /\ (~loc.far /\ InteractsSent # {}) => Treated(wf.it)
            /\ (loc.far /\ ~loc.after.returned) => InteractsSent = {}
            /\ (loc.far /\ loc.after.returned /\ loc.after.walkResult.success /\ here # {}) =>
                  Treated(locsAfter[CHOOSE j \in here : \A k \in here : j <= k])

\* The door found after the walk can only be closed: already_open, no command.
C29_Witness ==
    /\ loc.op = "openDoor" /\ loc.far /\ loc.after.returned /\ loc.after.walkResult.success
    /\ loc.after.w.synced /\ loc.after.w.locs = <<OpenedDoor(1)>>
    /\ pc = "done" /\ cmds # <<>> /\ InteractsSent = {}
    /\ result.success /\ result.reason = "already_open"

----------------------------------------------------------------------------
(* sellToShop 'all': the size and the slot of a batch.                     *)

\* C30: every sell command of sellToShop 'all' is sent in the step that read
\* the snapshot; it names the slot of the first stack of the item in that
\* snapshot, and asks for the count of that stack, or for 10 when the stack
\* holds more: an amount from 1 to 10 and no larger than the stack.
C30_BatchFitsFirstStack ==
    [][(loc.op = "sellToShop" /\ loc.all /\ cmds' # cmds) =>
          LET own == {i \in DOMAIN world.items : world.items[i].id = wf'.sellItem.id}
              first == world.items[CHOOSE i \in own : \A j \in own : i <= j]
              cmd == cmds'[Len(cmds')]
          IN  /\ Len(cmds') = Len(cmds) + 1
              /\ cmd.c = "shopSell"
              /\ world.synced /\ world.open /\ own # {}
              /\ cmd.slot = first.slot
              /\ cmd.amount >= 1 /\ cmd.amount <= 10 /\ cmd.amount <= first.count
              /\ cmd.amount = 10 \/ cmd.amount = first.count]_vars

\* A stack of 12 is sold in a batch of 10 and a batch of 2.
C30_Witness ==
    /\ loc.op = "sellToShop" /\ loc.all /\ pc = "s_ack"
    /\ cmds = <<ShopSellCmd(0, 10), ShopSellCmd(0, 2)>>
    /\ world.items = <<Stack(0, Logs, 2)>>

----------------------------------------------------------------------------
(* walkTo: success and the positions it read.                              *)

\* C31: when walkTo returns success, the player position the code read last
\* in a snapshot of this call is within tolerance of the goal; a position put
\* in the place of a missing player (0, 0 or an earlier one) does not make it
\* succeed.
C31_SuccessWasObserved ==
    (loc.op = "walkTo" /\ pc = "done" /\ Returned(result) /\ result.success) =>
        /\ loc.w0.synced /\ loc.w0.player.present
        /\ Dist2(seen[1], seen[2], loc.x, loc.z) <= loc.tolerance * loc.tolerance

\* The player went missing while a stride was under way: the movement result
\* carries a position in its place, the goal (0, 0) is within tolerance of
\* the placeholder, and walkTo fails.
C31_Witness ==
    /\ loc.op = "walkTo" /\ pc = "done" /\ Returned(result) /\ ~result.success
    /\ result.message = "Lost connection during walk"
    /\ ~HasPlayer(world)
    /\ Dist2(0, 0, loc.x, loc.z) <= loc.tolerance * loc.tolerance
    /\ Dist2(seen[1], seen[2], loc.x, loc.z) > loc.tolerance * loc.tolerance

----------------------------------------------------------------------------
(* depositItem: the amount of a success.                                   *)

\* C32 as stated: whenever depositItem returns success, amountDeposited is at
\* least 1.
C32_SuccessDepositsSomething ==
    (loc.op = "depositItem" /\ pc = "done" /\ Returned(result) /\ result.success) =>
        result.amountDeposited >= 1

----------------------------------------------------------------------------
(* waitForMovementComplete: what its result can be.                        *)

\* C33: when the result of waitForMovementComplete has arrived = true, its
\* (x, z) is within tolerance of the target; and no result has arrived = false
\* together with stoppedMoving = false.
C33_MoveResultIsCoherent ==
    (loc.op = "waitForMovementComplete" /\ pc = "done") =>
        /\ Returned(result)
        /\ result.move.arrived =>
              (loc.x - result.move.x) * (loc.x - result.move.x)
              + (loc.z - result.move.z) * (loc.z - result.move.z)
                 <= loc.tolerance * loc.tolerance
        /\ result.move.arrived \/ result.move.stoppedMoving

\* The player started out of reach and was seen at a distance of exactly the
\* tolerance: arrived, at that position.
C33_Witness ==
    /\ loc.op = "waitForMovementComplete" /\ pc = "done"
    /\ HasPlayer(loc.w0) /\ ~StartWithin
    /\ result.move = MoveResult(TRUE, FALSE, 3, 4)
    /\ loc.tolerance = 5

----------------------------------------------------------------------------
(* buyFromShop(target, amount).                                            *)

MaxBuySteps == 2

ShopBuyCmd(slot, amount) == [c |-> "shopBuy", slot |-> slot, amount |-> amount]

\* A ShopResult { success, message, item? }.
BuyResult(success, message, item) ==
    [kind |-> "returned", success |-> success, message |-> message, reason |-> "none",
     item |-> item]

\* inventory.find(i => i.id === id): the first stack of the item.
FirstStack(inventory, id) ==
    LET own == SelectSeq(inventory, LAMBDA i : i.id = id)
    IN  IF own = <<>> THEN [found |-> FALSE] ELSE [found |-> TRUE, it |-> Head(own)]

\* Lines 599-601: hadItemBefore?.count ?? 0.
CountBefore(inventory, id) ==
    IF FirstStack(inventory, id).found THEN FirstStack(inventory, id).it.count ELSE 0

\* Lines 589-603 of buyFromShop, up to the send.  f.invBefore keeps the
\* inventory of the call (history).
BuyCall(w, l, c) ==
    IF ~(w.synced /\ w.open)
    THEN Cfg("done", l, NoFrame, NoFrame, c, BuyResult(FALSE, "Shop is not open", [found |-> FALSE]))
    ELSE LET r == ResolveShopItem(l.target, w.shopItems)
         IN  IF ~r.found
             THEN Cfg("done", l, NoFrame, NoFrame, c,
                      BuyResult(FALSE, "Item not found in shop", [found |-> FALSE]))
             ELSE Cfg("y_ack", l,
                      [ret |-> "top", shopItem |-> r.item,
                       countBefore |-> CountBefore(w.inv, r.item.id), invBefore |-> w.inv,
                       grew |-> FALSE],
                      NoFrame, Append(c, ShopBuyCmd(r.item.slot, l.amount)), NoResult)

\* Lines 609-613: the predicate buyFromShop waits for.
BuySeen(s, f) ==
    /\ FirstStack(s.inv, f.shopItem.id).found
    /\ FirstStack(s.inv, f.shopItem.id).it.count > f.countBefore

BuyWorld(synced, open, shopItems, inv, pending) ==
    [synced |-> synced, open |-> open, shopItems |-> shopItems, inv |-> inv, pending |-> pending]

\* The inventory after k units of the item came in on a slot of their own.
AddStack(inventory, id, k) == Append(inventory, Stack(Len(inventory) + 10, id, k))

\* The shop and the snapshot source: the pending purchase is carried out (all
\* of it or one unit, on the first stack of the item or in a slot of its own),
\* or the shop closes or the snapshot goes.
EnvBuy ==
    /\ pc \in {"y_ack", "y_wait", "y_read"}
    /\ polled
    /\ budget > 0
    /\ budget' = budget - 1
    /\ polled' = FALSE
    /\ \/ /\ world.pending.any
          /\ \E k \in {1, world.pending.amount} :
               \/ world' = [world EXCEPT !.inv = AddUnits(@, world.pending.id, k),
                                         !.pending = [any |-> FALSE]]
               \/ world' = [world EXCEPT !.inv = AddStack(@, world.pending.id, k),
                                         !.pending = [any |-> FALSE]]
       \/ world' = [world EXCEPT !.open = ~@]
       \/ world' = [world EXCEPT !.synced = ~@]
    /\ UNCHANGED <<pc, loc, wf, mf, cmds, result, seen>>

BuyFromShop_Call ==
    /\ pc = "call" /\ loc.op = "buyFromShop"
    /\ LET n == BuyCall(world, loc, cmds)
       IN  /\ Apply(n)
           /\ world' = IF n.pc = "y_ack"
                       THEN [world EXCEPT !.pending = [any |-> TRUE, id |-> n.wf.shopItem.id,
                                                       amount |-> loc.amount]]
                       ELSE world
    /\ NoRead /\ UNCHANGED budget

\* sendShopBuy answered (lines 603-606).
BuyFromShop_Ack ==
    /\ pc = "y_ack"
    /\ \E success \in BOOLEAN :
         IF success
         THEN Apply(Cfg("y_wait", loc, wf, NoFrame, cmds, NoResult)) /\ UNCHANGED world
         ELSE /\ world' = [world EXCEPT !.pending = [any |-> FALSE]]
              /\ Apply(Cfg("done", loc, wf, NoFrame, cmds,
                           BuyResult(FALSE, "not sent", [found |-> FALSE])))
    /\ NoRead /\ UNCHANGED budget

\* waitForCondition evaluates the predicate on the snapshot.  f.grew tells
\* whether a snapshot it evaluated held more units of the item, over all the
\* stacks, than the inventory of the call (history).
BuyFromShop_Poll ==
    /\ pc = "y_wait" /\ ~polled
    /\ LET f == [wf EXCEPT !.grew = @ \/ (world.synced /\ TotalCount(world.inv, wf.shopItem.id)
                                                          > TotalCount(wf.invBefore, wf.shopItem.id))]
       IN  IF world.synced /\ BuySeen(world, wf)
           THEN Apply(Cfg("y_read", loc, f, NoFrame, cmds, NoResult))
           ELSE polled' = TRUE /\ wf' = f /\ UNCHANGED <<pc, loc, mf, cmds, result>>
    /\ NoRead /\ UNCHANGED <<world, budget>>

\* waitForCondition returned: lines 615-616.
BuyFromShop_Read ==
    /\ pc = "y_read"
    /\ Apply(Cfg("done", loc, wf, NoFrame, cmds,
                 BuyResult(TRUE, "Bought", FirstStack(GetInventory(world), wf.shopItem.id))))
    /\ NoRead /\ UNCHANGED <<world, budget>>

\* waitForCondition gives up (line 617).
BuyFromShop_Timeout ==
    /\ pc = "y_wait" /\ polled
    /\ Apply(Cfg("done", loc, wf, NoFrame, cmds,
                 BuyResult(FALSE, "Failed to buy", [found |-> FALSE])))
    /\ NoRead /\ UNCHANGED <<world, budget>>

InitBuy ==
    /\ \E synced \in BOOLEAN, open \in BOOLEAN,
          shopItems \in {<<>>, <<Stack(0, Coins, 9), Stack(1, Logs, 5)>>},
          inv \in {<<>>, <<Stack(0, Logs, 1)>>, <<Stack(0, Coins, 3), Stack(1, Logs, 1), Stack(2, Logs, 1)>>} :
            world = BuyWorld(synced, open, shopItems, inv, [any |-> FALSE])
    /\ loc \in {[op |-> "buyFromShop", target |-> t, amount |-> a] :
                   t \in {[handle |-> TRUE, item |-> Stack(1, Logs, 5)],
                          [handle |-> FALSE, pattern |-> Logs]},
                   a \in {1, 5}}
    /\ seen = <<0, 0>>
    /\ pc = "call"
    /\ wf = NoFrame /\ mf = NoFrame
    /\ polled = TRUE
    /\ cmds = <<>>
    /\ result = NoResult
    /\ budget = MaxBuySteps

NextBuy ==
    \/ BuyFromShop_Call
    \/ BuyFromShop_Ack
    \/ BuyFromShop_Poll
    \/ BuyFromShop_Read
    \/ BuyFromShop_Timeout
    \/ EnvBuy

SpecBuy == InitBuy /\ [][NextBuy]_vars

----------------------------------------------------------------------------
(* The calls of the actions, up to their first command.                    *)

CallOps == {"attackNpc", "pickupItem", "talkTo", "castSpellOnNpc", "equipItem", "eatFood",
            "openDoor", "openShop", "buyFromShop", "sellToShop", "depositItem", "withdrawItem"}

InitCalls ==
    /\ \/ InitActions
       \/ InitAttack
       \/ InitDoorOptions
       \/ InitOpenShop
       \/ InitBuy
       \/ InitShop
       \/ InitDeposit
       \/ InitWithdraw
    /\ loc.op \in CallOps

NextCalls ==
    \/ AttackNpc_Call
    \/ PickupItem_Call
    \/ TalkTo_Call
    \/ CastSpellOnNpc_Call
    \/ EquipItem_Call
    \/ EatFood_Call
    \/ OpenDoor_Call
    \/ OpenShop_Call
    \/ BuyFromShop_Call
    \/ SellToShop_Call
    \/ DepositItem_Call
    \/ WithdrawItem_Call

SpecCalls == InitCalls /\ [][NextCalls]_vars

\* The lower-case texts of the options of a thing.
OptionTexts(o) == {ToLowerCase(<<o.options[k].text>>)[1] : k \in DOMAIN o.options}

\* The thing the call acts on, by the snapshot of the call: the handle the
\* caller gave, or the first of the list that the pattern names; none if
\* there is no such thing.
Acted ==
    LET list == IF ~world.synced THEN <<>>
                ELSE CASE loc.op \in {"attackNpc", "talkTo", "castSpellOnNpc", "openShop"} -> world.npcs
                       [] loc.op = "pickupItem" -> world.ground
                       [] loc.op \in {"equipItem", "eatFood", "depositItem"} -> world.inv
                       [] loc.op = "openDoor" -> world.locs
                       [] loc.op = "buyFromShop" -> world.shopItems
                       [] loc.op = "sellToShop" -> world.items
                       [] OTHER -> <<>>
        Named(i) ==
            CASE loc.op = "openDoor" -> ToLowerCase(<<list[i].name>>)[1] \in loc.target.names
              [] loc.op \in {"buyFromShop", "sellToShop", "depositItem"} -> list[i].id = loc.target.pattern
              [] OTHER -> ToLowerCase(<<list[i].name>>)[1] = loc.target.pattern
        hits == {i \in DOMAIN list : Named(i)}
    IN  IF loc.target.handle
        THEN IF loc.op \in {"buyFromShop", "sellToShop"}
             THEN LET own == {i \in DOMAIN list : list[i].id = loc.target.item.id}
                  IN  IF own = {} THEN {} ELSE {list[CHOOSE i \in own : \A j \in own : i <= j]}
             ELSE {IF "npc" \in DOMAIN loc.target THEN loc.target.npc
                   ELSE IF "it" \in DOMAIN loc.target THEN loc.target.it
                   ELSE loc.target.item}
        ELSE IF hits = {} THEN {}
        ELSE {list[CHOOSE i \in hits : \A j \in hits : i <= j]}

\* The option the action asks for, and whether the thing acted on offers it.
Offered ==
    \A o \in Acted :
        CASE loc.op = "attackNpc" -> "attack" \in OptionTexts(o)
          [] loc.op = "openShop" -> "trade" \in OptionTexts(o)
          [] loc.op = "equipItem" -> OptionTexts(o) \cap {"wield", "wear", "equip"} # {}
          [] loc.op = "eatFood" -> "eat" \in OptionTexts(o)
          [] loc.op = "openDoor" -> "open" \in OptionTexts(o)
          [] OTHER -> TRUE

\* The precondition of the call does not hold: the shop or the bank is not
\* open, the target is not resolved, or it lacks the option.
Unmet ==
    CASE loc.op \in {"buyFromShop", "sellToShop"} -> ~(world.synced /\ world.open) \/ Acted = {}
      [] loc.op = "depositItem" -> ~(world.synced /\ world.iface) \/ Acted = {}
      [] loc.op = "withdrawItem" -> ~(world.synced /\ world.iface)
      [] loc.op = "castSpellOnNpc" -> Acted = {} \/ ~world.synced
      [] OTHER -> Acted = {} \/ ~Offered

\* C34 as stated: when the precondition of the call does not hold, the action
\* returns a failure without having sent a command.
C34_UnmetMeansFailure ==
    (loc.op \in CallOps /\ pc # "call" /\ Unmet) =>
        /\ pc = "done" /\ cmds = <<>>
        /\ Returned(result) /\ ~result.success

\* C34: when the precondition of the call does not hold, the action returns
\* without having sent a command; the result is a failure, but for openDoor on
\* a door that offers Close and not Open, which returns success already_open.
\* When the precondition holds, the call sends a command (openDoor for a far
\* door first walks, and sends none when the player stands at the door).
C34_UnmetMeansNoCommand ==
    (loc.op \in CallOps /\ pc # "call") =>
        /\ Unmet =>
             /\ pc = "done" /\ cmds = <<>> /\ Returned(result)
             /\ result.success <=>
                   /\ loc.op = "openDoor" /\ Acted # {}
                   /\ \A o \in Acted : "close" \in OptionTexts(o)
             /\ result.success => result.reason = "already_open"
        /\ ~Unmet => (cmds # <<>> \/ pc = "r_walked")

\* openDoor on a door that is open: success, and no command.
C34_Witness ==
    /\ loc.op = "openDoor" /\ pc = "done" /\ Unmet
    /\ ~loc.target.handle
    /\ cmds = <<>> /\ result.success /\ result.reason = "already_open"

----------------------------------------------------------------------------
(* closeBank and closeShop: the commands and the evidence of a success.    *)

\* C35 as stated: a call of closeBank or closeShop sends at most two close
\* commands, and when it returns success the last snapshot it examined shows
\* the interface (for closeShop: the shop and the interface) closed.
C35_SuccessWasShownClosed ==
    loc.op \in {"closeBank", "closeShop"} =>
        /\ Len(cmds) - (IF loc.call = 2 THEN loc.mark ELSE 0) <= 2
        /\ (pc = "done" /\ Returned(result) /\ result.success) =>
              /\ world.synced /\ ~world.iface
              /\ loc.op = "closeShop" => ~world.shop

----------------------------------------------------------------------------
(* openBank: the commands of one call.                                     *)

\* A banker with a Bank option, or a booth with a Bank or a Use option.
UsableBank == world.banker = "bank" \/ world.booth \in {"bank", "use"}

\* C36 as stated: openBank sends at most one interact command, to the banker
\* if it has a Bank option and otherwise to the booth, and it sends no command
\* at all when an interface is already open or when no banker or booth with a
\* usable option is nearby.
C36_NoCommandWithoutBank ==
    loc.op = "openBank" =>
        /\ Len(SelectSeq(cmds, IsInteract)) <= 1
        /\ (loc.w0.synced /\ loc.w0.iface) => cmds = <<>>
        /\ ~UsableBank => cmds = <<>>

\* C36: openBank sends at most one interact command per call, to the banker
\* if it has a Bank option and otherwise to the booth, and never a second one
\* while it waits; it sends no command at all when the snapshot of the call
\* shows an interface open, and no interact command when no banker or booth
\* with a usable option is nearby: the dialog clicks of dismissBlockingUI come
\* before the banker and the booth are looked for.
C36_OneInteraction ==
    loc.op = "openBank" =>
        /\ Len(SelectSeq(cmds, IsInteract)) <= 1
        /\ \A i \in DOMAIN cmds :
              IsInteract(cmds[i]) =>
                  /\ UsableBank
                  /\ cmds[i].c = "interactNpc" <=> world.banker = "bank"
                  /\ \A j \in 1..(i - 1) : cmds[j].c = "clickDialog"
        /\ (loc.w0.synced /\ loc.w0.iface) => cmds = <<>>
        /\ ~UsableBank => \A i \in DOMAIN cmds : cmds[i].c = "clickDialog"

\* A banker without a Bank option and no booth: openBank clicked a dialog away
\* and then returned that no bank was found.
C36_Witness ==
    /\ loc.op = "openBank" /\ pc = "done" /\ Returned(result)
    /\ result.reason = "no_bank_found"
    /\ world.banker = "talk" /\ world.booth = "none"
    /\ cmds # <<>> /\ cmds[1].c = "clickDialog"

----------------------------------------------------------------------------
(* dismissBlockingUI on its own: its clicks and its end.                   *)

InitDismiss == InitBank /\ loc.op = "dismissBlockingUI"

DismissStep == DismissBlockingUI_Call \/ DismissBlockingUI_Ack \/ DismissBlockingUI_Next

NextDismiss ==
    \/ DismissBlockingUI_Call
    \/ DismissBlockingUI_Ack
    \/ DismissBlockingUI_Next
    \/ EnvUi

\* The click is answered and waitForStateChange(2000) ends, by a change or by
\* its timeout, and the continuation then runs.
SpecDismiss == InitDismiss /\ [][NextDismiss]_vars /\ WF_vars(DismissStep)

IsClick(e) == e.c = "clickDialog"

\* The snapshot that getState returns shows a dialog open.
DialogShown == world.synced /\ world.dialog.isOpen

\* C37: dismissBlockingUI returns, after at most 10 dialog clicks; a click is
\* sent only when the snapshot just read shows a dialog open, and a snapshot
\* that is missing or shows no dialog ends the call without a click.
C37_DismissTerminates ==
    /\ [](/\ Len(SelectSeq(cmds, IsClick)) <= MAX_ATTEMPTS
          /\ \A i \in DOMAIN cmds : IsClick(cmds[i]) /\ cmds[i].index = 0 /\ cmds[i].on.isOpen)
    /\ [][/\ cmds' # cmds => (DialogShown /\ cmds' = Append(cmds, ClickDialogCmd(0, world.dialog)))
          /\ (pc \in {"call", "u_change"} /\ ~DialogShown /\ world' = world) =>
                (pc' = "done" /\ cmds' = cmds)]_vars
    /\ <>(pc = "done" /\ result = Void)

\* dismissBlockingUI returned after ten clicks with the dialog still open.
C37_Witness ==
    /\ loc.op = "dismissBlockingUI" /\ pc = "done" /\ result = Void
    /\ Len(cmds) = MAX_ATTEMPTS
    /\ DialogShown

----------------------------------------------------------------------------
(* buyFromShop: what the wait takes for a purchase.                        *)

\* C38 as stated: buyFromShop returns success whenever a snapshot of its wait
\* held more units of the item, summed over all the stacks, than the inventory
\* of the call, also when the item was already held in separate stacks.
C38_GrowthMeansSuccess ==
    (loc.op = "buyFromShop" /\ pc = "done" /\ "grew" \in DOMAIN wf /\ wf.grew) =>
        (Returned(result) /\ result.success)

----------------------------------------------------------------------------
(* sellToShop with a numeric amount: the amount of the command.            *)

NumericAmounts == {0, 1, 2, 5, 7, 10, 11}

InitSellAmount ==
    /\ \E synced \in BOOLEAN, open \in BOOLEAN, items \in ShopInventories :
          world = ShopWorld(synced, open, items, 1, <<>>, NoSell)
    /\ loc \in {[op |-> "sellToShop", target |-> t, all |-> FALSE, amount |-> a, w0 |-> world] :
                   t \in SellTargets, a \in NumericAmounts}
    /\ seen = <<0, 0>>
    /\ pc = "call"
    /\ wf = NoFrame /\ mf = NoFrame
    /\ polled = TRUE
    /\ cmds = <<>>
    /\ result = NoResult
    /\ budget = MaxShopSteps

NextSellAmount ==
    \/ SellToShop_Call
    \/ SellToShop_Ack
    \/ SellToShop_Poll
    \/ SellToShop_Timeout
    \/ EnvShop

SpecSellAmount == InitSellAmount /\ [][NextSellAmount]_vars

\* C39: sellToShop with a numeric amount sends a sell command whose amount is
\* one of 1, 5 and 10: the requested amount when it is one of the three, and 1
\* for any other requested amount.
C39_AmountIsOneFiveOrTen ==
    (loc.op = "sellToShop" /\ ~loc.all) =>
        \A i \in DOMAIN cmds :
            /\ cmds[i].c = "shopSell"
            /\ cmds[i].amount \in {1, 5, 10}
            /\ loc.amount \in {1, 5, 10} => cmds[i].amount = loc.amount
            /\ loc.amount \notin {1, 5, 10} => cmds[i].amount = 1

\* Seven units were asked for and the command that was sent sells one.
C39_Witness ==
    /\ loc.op = "sellToShop" /\ ~loc.all /\ loc.amount = 7
    /\ Len(cmds) = 1 /\ cmds[1].amount = 1
    /\ pc = "done" /\ Returned(result) /\ result.success

====
